---- MODULE Spec2Model ----
(***************************************************************************)
(* Model of the tank-cost optimization engine (src/model/tank_model.py):   *)
(* the penalized objective, the finite-difference gradient and Hessian,    *)
(* the backtracking line search and the three optimizer loops              *)
(* (steepest descent, Newton, DFP).                                        *)
(*                                                                         *)
(* Python floats are modelled as binary floating-point numbers with a      *)
(* Precision-bit significand, round-to-nearest-even, overflow to +-inf,    *)
(* underflow to zero, and NaN, so that absorption (x + h = x), inf - inf,  *)
(* 0/0 and comparisons with NaN behave as they do in the program.          *)
(***************************************************************************)
EXTENDS Integers, Sequences, FiniteSets, TLC

\* ------------------------------------------------------------------------
\* Bounds of the model
\* ------------------------------------------------------------------------
\* significand width of a modelled float (IEEE double has 53)
Precision == 10
\* largest binary exponent of a finite modelled float; beyond it: +-inf
ExpMax == 128
\* largest max_iter a call is started with
MaxIterBound == 2
\* clicks on the run button in one session
MaxRuns == 2

\* ------------------------------------------------------------------------
\* Floating-point numbers: [c |-> "fin", m |-> signed significand, e |-> exp]
\* stands for m * 2^e, with m = 0 or 2^(Precision-1) <= |m| < 2^Precision;
\* [c |-> "inf", m |-> +-1] and [c |-> "nan"] are the special values.
\* ------------------------------------------------------------------------
NaN == [c |-> "nan", m |-> 0, e |-> 0]
PInf == [c |-> "inf", m |-> 1, e |-> 0]
NInf == [c |-> "inf", m |-> -1, e |-> 0]
Zero == [c |-> "fin", m |-> 0, e |-> 0]

Abs(n) == IF n < 0 THEN -n ELSE n
Sgn(n) == IF n < 0 THEN -1 ELSE IF n > 0 THEN 1 ELSE 0
Inf(s) == IF s < 0 THEN NInf ELSE PInf

\* the number of bits of k, 0 < k < 2^31, by bisection: lo < BitLen <= hi
RECURSIVE BitLenIn(_, _, _)
BitLenMid(k, lo, hi, mid) ==
  IF k < 2^mid THEN BitLenIn(k, lo, mid) ELSE BitLenIn(k, mid, hi)
BitLenIn(k, lo, hi) ==
  IF hi - lo = 1 THEN hi ELSE BitLenMid(k, lo, hi, (lo + hi) \div 2)
BitLen(k) == IF k < 2^30 THEN BitLenIn(k, 0, 30) ELSE 31

\* s * q * 2^e with q < 2^Precision, or its overflow or underflow
Pack(s, q, e) ==
  IF e + Precision - 1 > ExpMax THEN Inf(s)
  ELSE IF e + Precision - 1 < -ExpMax THEN Zero
  ELSE [c |-> "fin", m |-> s * q, e |-> e]

\* a significand that rounding carried up to 2^Precision is renormalised
Carry(s, q, e) ==
  Pack(s, IF q = 2^Precision THEN 2^(Precision - 1) ELSE q,
       IF q = 2^Precision THEN e + 1 ELSE e)

\* q + r / (2 * half), rounded to nearest, ties to even
RoundQ(s, q, r, half, e) ==
  Carry(s, IF r > half \/ (r = half /\ q % 2 = 1) THEN q + 1 ELSE q, e)

\* M has Precision + sh bits
RoundSh(s, M, E, sh) ==
  IF sh > 0 THEN RoundQ(s, M \div (2^sh), M % (2^sh), 2^(sh - 1), E + sh)
  ELSE Pack(s, M * (2^(-sh)), E + sh)

Round(s, M, E) == IF M = 0 THEN Zero ELSE RoundSh(s, M, E, BitLen(M) - Precision)


RoundSigned(M, E) == Round(Sgn(M), Abs(M), E)
FromInt(k) == RoundSigned(k, 0)

IsNaN(a) == a.c = "nan"
IsInf(a) == a.c = "inf"

FNeg(a) == [a EXCEPT !.m = -a.m]

\* hi.e >= lo.e, both finite and not zero
AddAligned(hi, lo) ==
  IF hi.e - lo.e > Precision + 1 THEN hi
  ELSE RoundSigned(hi.m * (2^(hi.e - lo.e)) + lo.m, lo.e)

FAdd(a, b) ==
  IF IsNaN(a) \/ IsNaN(b) THEN NaN
  ELSE IF IsInf(a) THEN (IF IsInf(b) /\ a.m # b.m THEN NaN ELSE a)
  ELSE IF IsInf(b) THEN b
  ELSE IF a.m = 0 THEN b
  ELSE IF b.m = 0 THEN a
  ELSE IF a.e >= b.e THEN AddAligned(a, b) ELSE AddAligned(b, a)

FSub(a, b) == FAdd(a, FNeg(b))

FMul(a, b) ==
  IF IsNaN(a) \/ IsNaN(b) THEN NaN
  ELSE IF IsInf(a) \/ IsInf(b)
       THEN (IF a.m = 0 \/ b.m = 0 THEN NaN ELSE Inf(a.m * b.m))
  ELSE RoundSigned(a.m * b.m, a.e + b.e)

\* num / den with a sticky bit for the remainder
Quotient(s, num, den, E) ==
  Round(s, 2 * (num \div den) + (IF num % den = 0 THEN 0 ELSE 1), E - 1)

\* numpy float64 division: x/0 is +-inf, 0/0 is nan, nothing is raised
FDiv(a, b) ==
  IF IsNaN(a) \/ IsNaN(b) THEN NaN
  ELSE IF IsInf(a) THEN (IF IsInf(b) THEN NaN
                         ELSE Inf(a.m * (IF b.m < 0 THEN -1 ELSE 1)))
  ELSE IF IsInf(b) THEN Zero
  ELSE IF b.m = 0 THEN (IF a.m = 0 THEN NaN ELSE Inf(a.m))
  ELSE Quotient(Sgn(a.m) * Sgn(b.m), Abs(a.m) * (2^(Precision + 2)), Abs(b.m),
                a.e - b.e - Precision - 2)

\* a < b on finite floats
LtFinite(a, b) ==
  IF Sgn(a.m) # Sgn(b.m) THEN a.m < b.m
  ELSE IF a.e = b.e THEN a.m < b.m
  ELSE IF a.m > 0 THEN a.e < b.e
  ELSE a.m < 0 /\ a.e > b.e

\* a < b; every comparison with NaN is false
FLt(a, b) ==
  IF IsNaN(a) \/ IsNaN(b) THEN FALSE
  ELSE IF IsInf(a) THEN a.m < 0 /\ b # NInf
  ELSE IF IsInf(b) THEN b.m > 0
  ELSE LtFinite(a, b)

FLeq(a, b) == FLt(a, b) \/ (~IsNaN(a) /\ a = b)
FGt(a, b) == FLt(b, a)

RECURSIVE IsqrtIn(_, _, _)
IsqrtMid(k, lo, hi, mid) ==
  IF mid * mid <= k THEN IsqrtIn(k, mid, hi) ELSE IsqrtIn(k, lo, mid - 1)
IsqrtIn(k, lo, hi) ==
  IF lo >= hi THEN lo ELSE IsqrtMid(k, lo, hi, (lo + hi + 1) \div 2)

\* floor of the square root of k, 0 <= k < 2^30
Isqrt(k) == IsqrtIn(k, 0, 32767)

\* the square root of m2 * 2^e2 (e2 even) from r = Isqrt(m2)
SqrtRound(m2, r, e2) ==
  Round(1, 2 * r + (IF r * r = m2 THEN 0 ELSE 1), e2 \div 2 - 1)

SqrtScaled(m1, e1, t) == SqrtRound(m1 * (2^(2 * t)), Isqrt(m1 * (2^(2 * t))), e1 - 2 * t)

FSqrt(a) ==
  IF IsNaN(a) THEN NaN
  ELSE IF IsInf(a) THEN (IF a.m > 0 THEN PInf ELSE NaN)
  ELSE IF a.m = 0 THEN Zero
  ELSE IF a.m < 0 THEN NaN
  ELSE IF a.e % 2 = 0 THEN SqrtScaled(a.m, a.e, Precision \div 2 + 1)
  ELSE SqrtScaled(2 * a.m, a.e - 1, Precision \div 2 + 1)

\* the float nearest to the decimal literal whose binary expansion, cut to
\* 30 bits, is M * 2^E
Dec(M, E) == Round(1, M, E)

\* the literals of the source
Half == Dec(1, -1)
One == FromInt(1)
Two == FromInt(2)
Four == FromInt(4)
Ten == FromInt(10)
Hundred == FromInt(100)
\* np.pi
Pi == Dec(843314857, -28)
\* 1e-3, 1e-4, 1e-6, 1e-8, 1e-12
Milli == Dec(549755814, -39)
TenThousandth == Dec(879609302, -43)
Micro == Dec(562949953, -49)
Reg0 == Dec(720575940, -56)
CurvatureEps == Dec(590295810, -69)

\* ------------------------------------------------------------------------
\* Vectors (np.ndarray of length n) are sequences of floats; matrices are
\* sequences of rows.
\* ------------------------------------------------------------------------
VAdd(u, v) == [k \in 1..Len(u) |-> FAdd(u[k], v[k])]
VSub(u, v) == [k \in 1..Len(u) |-> FSub(u[k], v[k])]
VNeg(u) == [k \in 1..Len(u) |-> FNeg(u[k])]
VScale(a, u) == [k \in 1..Len(u) |-> FMul(a, u[k])]

RECURSIVE DotFrom(_, _, _)
DotFrom(u, v, k) ==
  IF k = Len(u) THEN FMul(u[k], v[k])
  ELSE FAdd(FMul(u[k], v[k]), DotFrom(u, v, k + 1))

\* np.dot(u, v)
Dot(u, v) == DotFrom(u, v, 1)
\* np.linalg.norm(u)
Norm(u) == FSqrt(Dot(u, u))
\* np.eye(k)
Eye(k) == [r \in 1..k |-> [j \in 1..k |-> IF r = j THEN One ELSE Zero]]
\* A @ u
MatVec(A, u) == [r \in 1..Len(A) |-> Dot(A[r], u)]
\* np.outer(u, v)
Outer(u, v) == [r \in 1..Len(u) |-> [k \in 1..Len(v) |-> FMul(u[r], v[k])]]
MAdd(A, B) == [r \in 1..Len(A) |-> VAdd(A[r], B[r])]
MScale(a, A) == [r \in 1..Len(A) |-> VScale(a, A[r])]
MDiv(A, a) == [r \in 1..Len(A) |-> [k \in 1..Len(A[r]) |-> FDiv(A[r][k], a)]]
MNeg(A) == [r \in 1..Len(A) |-> VNeg(A[r])]
Last(q) == q[Len(q)]

\* ------------------------------------------------------------------------
\* Parameters and the cost model
\* ------------------------------------------------------------------------
\* Parameters(): the dataclass defaults
DefaultParameters ==
  [V0 |-> Dec(858993459, -30), t |-> Dec(1030792151, -35),
   rho |-> FromInt(8000), Lmax |-> Two, Dmax |-> One,
   cm |-> Dec(603979776, -27), cw |-> FromInt(20)]

\* default of constraints_penalty's penalty_factor, 1e7
PenaltyFactor == FromInt(10000000)

Sq(a) == FMul(a, a)

\* lines 36-41, with r_out2 = (D/2 + t)**2 and r_in2 = (D/2)**2
tank_cost(p, D, L, r_out2, r_in2) ==
  FAdd(FMul(p.cm,
            FMul(p.rho,
                 FAdd(FMul(FMul(L, Pi), FSub(r_out2, r_in2)),
                      FMul(FMul(FMul(Two, Pi), r_out2), p.t)))),
       FMul(p.cw, FMul(FMul(Four, Pi), FAdd(D, p.t))))

\* TankOptimizer.objective_function
objective_function(p, x) ==
  IF FLeq(x[1], Zero) \/ FLeq(x[2], Zero) THEN PInf
  ELSE tank_cost(p, x[1], x[2], Sq(FAdd(FDiv(x[1], Two), p.t)),
                 Sq(FDiv(x[1], Two)))

\* a two-sided penalty: the term is added whether or not its condition holds
penalty_term_two_sided(violated, amount) == FMul(PenaltyFactor, Sq(amount))

\* one "if violated: penalty += penalty_factor * amount**2" of lines 49-60
\* (adding 0.0 leaves a float unchanged)
penalty_term(violated, amount) ==
  IF violated THEN FMul(PenaltyFactor, Sq(amount)) ELSE Zero

\* lines 49-61, with the volume and its two bounds
penalty_sum(p, D, L, V_internal, lower_vol_bound, upper_vol_bound) ==
  FAdd(FAdd(FAdd(FAdd(FAdd(FAdd(Zero,
    penalty_term(FLt(V_internal, lower_vol_bound),
                 FSub(lower_vol_bound, V_internal))),
    penalty_term(FGt(V_internal, upper_vol_bound),
                 FSub(V_internal, upper_vol_bound))),
    penalty_term(FGt(L, p.Lmax), FSub(L, p.Lmax))),
    penalty_term(FGt(D, p.Dmax), FSub(D, p.Dmax))),
    penalty_term(FLeq(D, Zero), FAdd(FNeg(D), Milli))),
    penalty_term(FLeq(L, Zero), FAdd(FNeg(L), Milli)))

\* TankOptimizer.constraints_penalty
constraints_penalty(p, x) ==
  penalty_sum(p, x[1], x[2], FDiv(FMul(FMul(Pi, Sq(x[1])), x[2]), Four),
              FMul(Dec(966367642, -30), p.V0),
              FMul(Dec(590558003, -29), p.V0))

\* TankOptimizer.penalized_objective
penalized_objective(p, x) ==
  FAdd(objective_function(p, x), constraints_penalty(p, x))

\* the test function f(x, y) = x^2 + y^2
sphere(x) == FAdd(Sq(x[1]), Sq(x[2]))

\* the Callable f handed to the numerical routines, by name
Apply(f, p, x) ==
  IF f = "penalized_objective" THEN penalized_objective(p, x) ELSE sphere(x)

\* ------------------------------------------------------------------------
\* Finite differences
\* ------------------------------------------------------------------------
\* x.copy() with x[k] += d
Bump(x, k, d) == [x EXCEPT ![k] = FAdd(x[k], d)]

\* TankOptimizer.gradient_numerical
gradient_numerical(f, p, x, h) ==
  [k \in 1..Len(x) |->
     FDiv(FSub(Apply(f, p, Bump(x, k, h)), Apply(f, p, Bump(x, k, FNeg(h)))),
          FMul(Two, h))]

\* number of evaluations of f one gradient_numerical call performs:
\* f(x_plus) and f(x_minus) for each coordinate
GradientCalls(x) == Cardinality((1..Len(x)) \X {"plus", "minus"})

\* TankOptimizer.hessian_numerical
hessian_numerical(f, p, x, h) ==
  [r \in 1..Len(x) |-> [k \in 1..Len(x) |->
     FDiv(FAdd(FSub(FSub(Apply(f, p, Bump(Bump(x, r, h), k, h)),
                         Apply(f, p, Bump(Bump(x, r, h), k, FNeg(h)))),
                    Apply(f, p, Bump(Bump(x, r, FNeg(h)), k, h))),
               Apply(f, p, Bump(Bump(x, r, FNeg(h)), k, FNeg(h)))),
          FMul(Four, Sq(h)))]]

\* the evaluations of a Hessian routine that computes the stencil of each
\* unordered pair once and mirrors it
HessianCallsMirrored(x) ==
  Cardinality({q \in (1..Len(x)) \X (1..Len(x)) : q[1] <= q[2]}
              \X {"pp", "pm", "mp", "mm"})

\* number of evaluations of f one hessian_numerical call performs:
\* the four stencil points of every ordered pair (i, j)
HessianCalls(x) ==
  Cardinality(((1..Len(x)) \X (1..Len(x))) \X {"pp", "pm", "mp", "mm"})


\* ------------------------------------------------------------------------
\* State
\* ------------------------------------------------------------------------
\* the optimizer calls a caller may have in progress
Calls == {1, 2}

\* params: TankOptimizer.params, shared by every call;
\* loc[c]: the local variables and the position of call c
\* gui: the window of OptimizationGUI and its worker threads
\* mth: the call of a function of src/methods
VARIABLES params, loc, gui, mth
vars == <<params, loc, gui, mth>>

\* len(x): the design vector is (D, L)
n == 2
\* the number of passes of line_search_backtrack's for loop
LineSearchCap == 50

ZeroVec == [k \in 1..n |-> Zero]

\* the keys of methods_to_run
MethodNames == {"Steepest Descent", "Newton", "DFP"}

\* line_search_backtrack not yet entered.  trials, tried and accepted are
\* history variables: the number of trial points evaluated, their step
\* lengths in order, and whether the return was the one of line 96.
NoLineSearch ==
  [f |-> "penalized_objective", x |-> ZeroVec, direction |-> ZeroVec,
   grad |-> ZeroVec, alpha_init |-> Zero, c1 |-> Zero, rho |-> Zero,
   alpha |-> Zero, f_x |-> Zero, grad_dot_direction |-> Zero,
   evals |-> 0, k |-> 0, ret |-> <<>>, trials |-> 0, tried |-> <<>>,
   accepted |-> FALSE]

\* the arrays of a call are objects: heap[r] is the content of the array
\* object r, and ref names the objects that x0, the live iterate x and the
\* entries of x_history are bound to
NoArrays == [x0 |-> 0, x |-> 0, x_history |-> <<>>]

\* a.copy(): a new array object with the content of object r
np_copy(heap, r) == Append(heap, heap[r])

\* an expression such as x + alpha * direction: a new array object
np_new(heap, v) == Append(heap, v)

\* a call that has not started.  calls, exhausted, fallbacks, singulars and
\* skipped are history variables: the evaluations of the objective performed
\* so far, for each step whether its line search ran out of passes, and the
\* numbers of Newton fallbacks, singular systems and skipped DFP updates;
\* overlap records that another call was in progress when this one started.
Idle ==
  [pc |-> "idle", method |-> "", x0 |-> ZeroVec, max_iter |-> 0,
   tol |-> Zero, h_grad |-> Zero,
   x |-> ZeroVec, x_history |-> <<>>, f_history |-> <<>>,
   gradient_norms |-> <<>>, func_evals |-> 0, i |-> 0,
   grad |-> ZeroVec, hess |-> Eye(n), H |-> Eye(n), direction |-> ZeroVec,
   ls |-> NoLineSearch, result |-> <<>>, error |-> "",
   calls |-> 0, exhausted |-> <<>>, fallbacks |-> 0, singulars |-> 0,
   skipped |-> 0, heap |-> <<>>, ref |-> NoArrays, overlap |-> FALSE]

\* ------------------------------------------------------------------------
\* line_search_backtrack, one pass of its loop per step
\* ------------------------------------------------------------------------
\* lines 90-93: alpha = alpha_init; f_x = f(x); grad_dot_direction; evals = 0
ls_enter(p, f, x, direction, grad, alpha_init, c1, rho) ==
  [f |-> f, x |-> x, direction |-> direction, grad |-> grad,
   alpha_init |-> alpha_init, c1 |-> c1, rho |-> rho,
   alpha |-> alpha_init, f_x |-> Apply(f, p, x),
   grad_dot_direction |-> Dot(grad, direction),
   evals |-> 0, k |-> 0, ret |-> <<>>, trials |-> 0, tried |-> <<>>,
   accepted |-> FALSE]

\* a test that accepts every trial whose objective is a number
ArmijoAny(p, s, alpha) ==
  ~IsNaN(Apply(s.f, p, VAdd(s.x, VScale(alpha, s.direction))))

\* the test of line 95 at step length alpha
Armijo(p, s, alpha) ==
  FLeq(Apply(s.f, p, VAdd(s.x, VScale(alpha, s.direction))),
       FAdd(s.f_x, FMul(FMul(s.c1, alpha), s.grad_dot_direction)))

\* a return of line 96 that leaves the accepted trial out of the count
ls_accept_uncounted(s) ==
  [s EXCEPT !.ret = <<[alpha |-> s.alpha, evals |-> s.evals]>>,
            !.trials = s.trials + 1, !.tried = Append(s.tried, s.alpha),
            !.accepted = TRUE]

\* line 96: return alpha, evals + 1
ls_accept(s) ==
  [s EXCEPT !.ret = <<[alpha |-> s.alpha, evals |-> s.evals + 1]>>,
            !.trials = s.trials + 1, !.tried = Append(s.tried, s.alpha),
            !.accepted = TRUE]

\* lines 97-98 in a loop that does not count its passes ("while True")
ls_shrink_forever(s) ==
  [s EXCEPT !.alpha = FMul(s.alpha, s.rho), !.evals = s.evals + 1,
            !.trials = s.trials + 1, !.tried = Append(s.tried, s.alpha)]

\* lines 97-98: alpha *= rho; evals += 1
ls_shrink(s) ==
  [s EXCEPT !.alpha = FMul(s.alpha, s.rho), !.evals = s.evals + 1,
            !.k = s.k + 1, !.trials = s.trials + 1,
            !.tried = Append(s.tried, s.alpha)]

\* lines 95-98: one pass of the loop
ls_try(p, s) == IF Armijo(p, s, s.alpha) THEN ls_accept(s) ELSE ls_shrink(s)

\* line 99: return alpha, evals
ls_exhaust(s) ==
  [s EXCEPT !.ret = <<[alpha |-> s.alpha, evals |-> s.evals]>>,
            !.accepted = FALSE]

\* the default arguments alpha_init=1.0, c1=1e-4, rho=0.5, with which the
\* optimizers call the line search on the penalized objective
ls_call(p, x, direction, grad) ==
  ls_enter(p, "penalized_objective", x, direction, grad,
           One, TenThousandth, Half)

\* ------------------------------------------------------------------------
\* OptimizationResult and the two returns of an optimizer
\* ------------------------------------------------------------------------
OptimizationResult(l, iterations, converged) ==
  [x_history |-> l.x_history, f_history |-> l.f_history,
   gradient_norms |-> l.gradient_norms, iterations |-> iterations,
   function_evaluations |-> l.func_evals, final_x |-> l.x,
   final_f |-> Last(l.f_history), converged |-> converged,
   method_name |-> l.method]

\* a return inside the loop that reports the pass number i + 1
return_converged_next(l) ==
  [l EXCEPT !.pc = "done",
            !.result = <<OptimizationResult(l, l.i + 1, TRUE)>>]

\* the return inside the loop, in pass i
return_converged(l) ==
  [l EXCEPT !.pc = "done", !.result = <<OptimizationResult(l, l.i, TRUE)>>]

\* a return after the loop that reports the run as converged
return_max_iter_converged(l) ==
  [l EXCEPT !.pc = "done",
            !.result = <<OptimizationResult(l, l.max_iter, TRUE)>>]

\* the return after the loop
return_max_iter(l) ==
  [l EXCEPT !.pc = "done",
            !.result = <<OptimizationResult(l, l.max_iter, FALSE)>>]

\* x = x0.copy(); x_history = [x.copy()]; f_history = [f(x)];
\* gradient_norms = []; func_evals = 1
begin(p, l, method, x0, max_iter, tol, h_grad) ==
  [l EXCEPT !.pc = "loop", !.method = method,
            !.x0 = x0, !.max_iter = max_iter, !.tol = tol, !.h_grad = h_grad,
            !.x = x0, !.x_history = <<x0>>,
            !.f_history = <<penalized_objective(p, x0)>>,
            !.gradient_norms = <<>>, !.func_evals = 1, !.i = 0,
            !.calls = 1,
            !.heap = np_copy(np_copy(<<x0>>, 1), 2),
            !.ref = [x0 |-> 1, x |-> 2, x_history |-> <<3>>]]

\* gradient_norms.append(np.linalg.norm(grad))
append_norm(l) ==
  [l EXCEPT !.gradient_norms = Append(l.gradient_norms, Norm(l.grad))]

\* the call of the line search along direction
enter_search(p, l, direction) ==
  [l EXCEPT !.pc = "ls", !.direction = direction,
            !.ls = ls_call(p, l.x, direction, l.grad),
            !.calls = l.calls + 1]

\* a loop without the test of the gradient norm
never_converged(l) == FALSE

\* "if grad_norm < tol: return ..." on the norm just appended
converged_now(l) == FLt(Last(l.gradient_norms), l.tol)

\* the step of a method that took x = x0 without the copy and updates it in
\* place (x += alpha * direction): the caller's array x0 moves with x
take_step_in_place(p, l) ==
  LET x == VAdd(l.x, VScale(l.ls.ret[1].alpha, l.direction))
  IN  [l EXCEPT !.pc = "loop",
                !.func_evals = l.func_evals + l.ls.ret[1].evals + 1,
                !.x = x, !.x0 = x, !.x_history = Append(l.x_history, x),
                !.f_history = Append(l.f_history, penalized_objective(p, x)),
                !.calls = l.calls + 1, !.i = l.i + 1,
                !.exhausted = Append(l.exhausted, ~l.ls.accepted)]

\* func_evals += evals; x = x + alpha * direction; the histories are
\* extended; func_evals += 1
take_step(p, l) ==
  LET x == VAdd(l.x, VScale(l.ls.ret[1].alpha, l.direction))
  IN  [l EXCEPT !.pc = "loop",
                !.func_evals = l.func_evals + l.ls.ret[1].evals + 1,
                !.x = x, !.x_history = Append(l.x_history, x),
                !.f_history = Append(l.f_history, penalized_objective(p, x)),
                !.calls = l.calls + 1, !.i = l.i + 1,
                !.exhausted = Append(l.exhausted, ~l.ls.accepted),
                !.heap = np_copy(np_new(l.heap, x), Len(l.heap) + 1),
                !.ref = [l.ref EXCEPT !.x = Len(l.heap) + 1,
                           !.x_history = Append(@, Len(l.heap) + 2)]]

\* ------------------------------------------------------------------------
\* steepest_descent
\* ------------------------------------------------------------------------
\* lines 102-106
sd_init(p, l, x0, max_iter, tol, h_grad) ==
  begin(p, l, "Steepest Descent", x0, max_iter, tol, h_grad)

\* lines 109-110
sd_gradient(p, l) ==
  [l EXCEPT !.grad = gradient_numerical("penalized_objective", p, l.x, l.h_grad),
            !.func_evals = l.func_evals + 2 * Len(l.x),
            !.calls = l.calls + GradientCalls(l.x)]

\* lines 113-116
sd_search(p, l) ==
  IF converged_now(l) THEN return_converged(l)
  ELSE enter_search(p, l, VNeg(l.grad))

\* lines 109-116: one pass of the loop up to the call of the line search
sd_iter(p, l) == sd_search(p, append_norm(sd_gradient(p, l)))

\* lines 117-121
sd_step(p, l) == take_step(p, l)


\* ------------------------------------------------------------------------
\* newton_method
\* ------------------------------------------------------------------------
FAbs(a) == [a EXCEPT !.m = Abs(a.m)]

Singular == [ok |-> FALSE, x |-> ZeroVec]

\* back substitution; a zero pivot u22 is reported as singular
BackSubstitute(A, b, u22, y2) ==
  IF u22 = Zero THEN Singular
  ELSE [ok |-> TRUE,
        x |-> <<FDiv(FSub(b[1], FMul(A[1][2], FDiv(y2, u22))), A[1][1]),
                FDiv(y2, u22)>>]

\* elimination of the second row with multiplier mult
Eliminate(A, b, mult) ==
  BackSubstitute(A, b, FSub(A[2][2], FMul(mult, A[1][2])),
                 FSub(b[2], FMul(mult, b[1])))

\* the system with the pivot row first
SolvePivoted(A, b) ==
  IF A[1][1] = Zero THEN Singular
  ELSE Eliminate(A, b, FDiv(A[2][1], A[1][1]))

\* np.linalg.solve(A, b) for a 2x2 system: LU factorisation with partial
\* pivoting; an exactly zero pivot raises LinAlgError (ok = FALSE)
Solve(A, b) ==
  IF FLt(FAbs(A[1][1]), FAbs(A[2][1]))
  THEN SolvePivoted(<<A[2], A[1]>>, <<b[2], b[1]>>)
  ELSE SolvePivoted(A, b)

\* lines 140-151: the regularisation ladder from level reg on;
\* sing counts the levels whose system was singular
RECURSIVE newton_ladder(_, _, _, _)
\* lines 148-151: reg *= 10 has been done
ladder_next(hess, grad, reg, sing) ==
  IF FGt(reg, Hundred)
  THEN [direction |-> VNeg(grad), fallback |-> TRUE, singulars |-> sing]
  ELSE newton_ladder(hess, grad, reg, sing)

\* lines 144-148 with the outcome sol of line 143
ladder_level(hess, grad, reg, sing, sol) ==
  IF sol.ok /\ FLt(Dot(sol.x, grad), Zero)
  THEN [direction |-> sol.x, fallback |-> FALSE, singulars |-> sing]
  ELSE ladder_next(hess, grad, FMul(reg, Ten),
                   IF sol.ok THEN sing ELSE sing + 1)

newton_ladder(hess, grad, reg, sing) ==
  ladder_level(hess, grad, reg, sing,
               Solve(MAdd(hess, MScale(reg, Eye(Len(grad)))), VNeg(grad)))

\* lines 138-153: the direction of a Newton iteration
newton_direction(hess, grad) == newton_ladder(hess, grad, Reg0, 0)

\* lines 125-129
newton_init(p, l, x0, max_iter, tol, h_grad) ==
  begin(p, l, "Newton", x0, max_iter, tol, h_grad)

\* lines 131-133
newton_gradient(p, l) ==
  [l EXCEPT !.grad = gradient_numerical("penalized_objective", p, l.x, l.h_grad),
            !.hess = hessian_numerical("penalized_objective", p, l.x, l.h_grad),
            !.func_evals = l.func_evals + 2 * Len(l.x) + 4 * Len(l.x) * Len(l.x),
            !.calls = l.calls + GradientCalls(l.x) + HessianCalls(l.x)]

\* line 154 with the direction nd that lines 138-153 chose
newton_enter(p, l, nd) ==
  [enter_search(p, l, nd.direction) EXCEPT
     !.fallbacks = l.fallbacks + (IF nd.fallback THEN 1 ELSE 0),
     !.singulars = l.singulars + nd.singulars]

\* lines 136-154
newton_search(p, l) ==
  IF converged_now(l) THEN return_converged(l)
  ELSE newton_enter(p, l, newton_direction(l.hess, l.grad))

\* lines 131-154: one pass of the loop up to the call of the line search
newton_iter(p, l) == newton_search(p, append_norm(newton_gradient(p, l)))

\* lines 155-159
newton_step(p, l) == take_step(p, l)

\* ------------------------------------------------------------------------
\* dfp_method
\* ------------------------------------------------------------------------
\* a DFP that starts from H = 2I
dfp_first_gradient_scaled(p, l) ==
  [l EXCEPT !.grad = gradient_numerical("penalized_objective", p, l.x, l.h_grad),
            !.H = MScale(Two, Eye(Len(l.x))),
            !.func_evals = l.func_evals + 2 * Len(l.x),
            !.calls = l.calls + GradientCalls(l.x)]

\* lines 170-171
dfp_first_gradient(p, l) ==
  [l EXCEPT !.grad = gradient_numerical("penalized_objective", p, l.x, l.h_grad),
            !.H = Eye(Len(l.x)),
            !.func_evals = l.func_evals + 2 * Len(l.x),
            !.calls = l.calls + GradientCalls(l.x)]

\* lines 163-171
dfp_init(p, l, x0, max_iter, tol, h_grad) ==
  dfp_first_gradient(p, begin(p, l, "DFP", x0, max_iter, tol, h_grad))

\* lines 175-178
dfp_search(p, l) ==
  IF converged_now(l) THEN return_converged(l)
  ELSE enter_search(p, l, MatVec(MNeg(l.H), l.grad))

\* a pass that tests the norm before it appends it
dfp_iter_test_first(p, l) ==
  IF FLt(Norm(l.grad), l.tol) THEN return_converged(l)
  ELSE dfp_search(p, append_norm(l))

\* lines 173-178: one pass of the loop up to the call of the line search
dfp_iter(p, l) == dfp_search(p, append_norm(l))

\* lines 186-189 with Hy = H @ y
dfp_formula(H, s, y, Hy) ==
  MAdd(MAdd(H, MDiv(Outer(s, s), Dot(s, y))),
       MDiv(MNeg(Outer(Hy, Hy)), Dot(y, Hy)))

\* an update of H that is applied whatever the curvature y.s
dfp_update_always(H, s, y) == dfp_formula(H, s, y, MatVec(H, y))

\* lines 185-189: the update of H, applied if y.s > 1e-12
dfp_update(H, s, y) ==
  IF FGt(Dot(y, s), CurvatureEps) THEN dfp_formula(H, s, y, MatVec(H, y))
  ELSE H

\* lines 184-194 of a method that moves the iterate in place (x += s) and
\* appends x itself, without the copy, to x_history
dfp_advance_aliased(p, l, s, x_new, grad_new) ==
  [l EXCEPT !.pc = "loop",
            !.func_evals = l.func_evals + l.ls.ret[1].evals + 2 * Len(l.x) + 1,
            !.H = dfp_update(l.H, s, VSub(grad_new, l.grad)),
            !.x = x_new, !.grad = grad_new,
            !.x_history = Append(l.x_history, x_new),
            !.f_history = Append(l.f_history, penalized_objective(p, x_new)),
            !.calls = l.calls + GradientCalls(x_new) + 1, !.i = l.i + 1,
            !.exhausted = Append(l.exhausted, ~l.ls.accepted),
            !.skipped = l.skipped +
               (IF FGt(Dot(VSub(grad_new, l.grad), s), CurvatureEps)
                THEN 0 ELSE 1),
            !.heap = [l.heap EXCEPT ![l.ref.x] = x_new],
            !.ref = [l.ref EXCEPT !.x_history = Append(@, l.ref.x)]]

\* lines 184-194 with s, x_new and grad_new
dfp_advance(p, l, s, x_new, grad_new) ==
  [l EXCEPT !.pc = "loop",
            !.func_evals = l.func_evals + l.ls.ret[1].evals + 2 * Len(l.x) + 1,
            !.H = dfp_update(l.H, s, VSub(grad_new, l.grad)),
            !.x = x_new, !.grad = grad_new,
            !.x_history = Append(l.x_history, x_new),
            !.f_history = Append(l.f_history, penalized_objective(p, x_new)),
            !.calls = l.calls + GradientCalls(x_new) + 1, !.i = l.i + 1,
            !.exhausted = Append(l.exhausted, ~l.ls.accepted),
            !.skipped = l.skipped +
               (IF FGt(Dot(VSub(grad_new, l.grad), s), CurvatureEps)
                THEN 0 ELSE 1),
            !.heap = np_copy(np_new(l.heap, x_new), Len(l.heap) + 1),
            !.ref = [l.ref EXCEPT !.x = Len(l.heap) + 1,
                       !.x_history = Append(@, Len(l.heap) + 2)]]

\* a step that keeps the gradient of the previous point as grad_old
dfp_move_stale(p, l, s, x_new) == dfp_advance(p, l, s, x_new, l.grad)

\* lines 181-182 with s
dfp_move(p, l, s, x_new) ==
  dfp_advance(p, l, s, x_new,
              gradient_numerical("penalized_objective", p, x_new, l.h_grad))

\* lines 179-194
dfp_step(p, l) ==
  dfp_move(p, l, VScale(l.ls.ret[1].alpha, l.direction),
           VAdd(l.x, VScale(l.ls.ret[1].alpha, l.direction)))


\* ------------------------------------------------------------------------
\* Inputs
\* ------------------------------------------------------------------------
\* starting points (D0, L0): the GUI default (0.5, 1.0), the feasible point
\* (1.0, 1.0), the point (0.0, 1.0) on the D = 0 boundary, the thin tank
\* (0.25, 1.0), the far point (100, 100) and the point (2.0, 2.0) from which
\* a step lands within h = 1 of the D = 0 boundary
X0Set == {<<Half, One>>, <<One, One>>, <<Zero, One>>, <<Dec(1, -2), One>>,
          <<Hundred, Hundred>>, <<Two, Two>>}
\* tolerances: the default 1e-6, the loose 2e5 and the non-positive 0
TolSet == {Micro, FromInt(200000), Zero}
\* finite-difference steps: the default 1e-6, 1/128 and 1
HSet == {Micro, Dec(1, -7), One}
\* max_iter: negative, zero and the largest; a run with a smaller positive
\* max_iter is a prefix of the run with the largest
MaxIterSet == {-1, 0, MaxIterBound}
\* the method names a caller may ask for
MethodSet == MethodNames \cup {"Gradient"}

\* ------------------------------------------------------------------------
\* Actions
\* ------------------------------------------------------------------------
\* the lookup methods_to_run[selected_method] failed: KeyError
unknown_method(l, method, x0, max_iter, tol, h_grad) ==
  [l EXCEPT !.pc = "error", !.error = "KeyError", !.method = method,
            !.x0 = x0, !.max_iter = max_iter, !.tol = tol, !.h_grad = h_grad]

\* methods_to_run[selected_method](x0, max_iter, tolerance, h_grad), up to
\* the loop of the method
start(p, l, method, x0, max_iter, tol, h_grad) ==
  IF method = "Steepest Descent"
  THEN sd_init(p, l, x0, max_iter, tol, h_grad)
  ELSE IF method = "Newton"
  THEN newton_init(p, l, x0, max_iter, tol, h_grad)
  ELSE IF method = "DFP"
  THEN dfp_init(p, l, x0, max_iter, tol, h_grad)
  ELSE unknown_method(l, method, x0, max_iter, tol, h_grad)

\* a caller runs a method
Call ==
  /\ loc[1].pc = "idle"
  /\ \E method \in MethodSet, x0 \in X0Set, max_iter \in MaxIterSet,
        tol \in TolSet, h_grad \in HSet :
       loc' = [loc EXCEPT ![1] = start(params, loc[1], method, x0, max_iter,
                                       tol, h_grad)]
  /\ UNCHANGED <<params, gui, mth>>

\* after the run has returned, the caller runs the same method once more on
\* the same optimizer with the same arguments
CallAgain ==
  /\ loc[1].pc = "done"
  /\ loc[2].pc = "idle"
  /\ loc' = [loc EXCEPT ![2] = start(params, loc[2], loc[1].method, loc[1].x0,
                                     loc[1].max_iter, loc[1].tol,
                                     loc[1].h_grad)]
  /\ UNCHANGED <<params, gui, mth>>

\* "for i in range(max_iter)" has a next pass
InLoop(c, method) ==
  /\ loc[c].pc = "loop"
  /\ loc[c].method = method
  /\ loc[c].i < loc[c].max_iter

SDIterate(c) ==
  /\ InLoop(c, "Steepest Descent")
  /\ loc' = [loc EXCEPT ![c] = sd_iter(params, loc[c])]
  /\ UNCHANGED <<params, gui, mth>>

NewtonIterate(c) ==
  /\ InLoop(c, "Newton")
  /\ loc' = [loc EXCEPT ![c] = newton_iter(params, loc[c])]
  /\ UNCHANGED <<params, gui, mth>>

DFPIterate(c) ==
  /\ InLoop(c, "DFP")
  /\ loc' = [loc EXCEPT ![c] = dfp_iter(params, loc[c])]
  /\ UNCHANGED <<params, gui, mth>>

\* one pass of the line search loop inside a call: back to the caller's
\* step when the pass returned
ls_passed(l, s) ==
  [l EXCEPT !.ls = s, !.calls = l.calls + 1,
            !.pc = IF s.ret # <<>> THEN "step" ELSE "ls"]

ls_pass(p, l) == ls_passed(l, ls_try(p, l.ls))

LSTry(c) ==
  /\ loc[c].pc = "ls"
  /\ loc[c].ls.k < LineSearchCap
  /\ loc' = [loc EXCEPT ![c] = ls_pass(params, loc[c])]
  /\ UNCHANGED <<params, gui, mth>>

\* a line search that raises when it runs out of passes
ls_raise(l) == [l EXCEPT !.pc = "error", !.error = "RuntimeError"]

\* the loop of the line search has run out of passes
ls_give_up(l) == [l EXCEPT !.ls = ls_exhaust(l.ls), !.pc = "step"]

LSExhaust(c) ==
  /\ loc[c].pc = "ls"
  /\ loc[c].ls.k >= LineSearchCap
  /\ loc' = [loc EXCEPT ![c] = ls_give_up(loc[c])]
  /\ UNCHANGED <<params, gui, mth>>

AtStep(c, method) ==
  /\ loc[c].pc = "step"
  /\ loc[c].method = method

SDStep(c) ==
  /\ AtStep(c, "Steepest Descent")
  /\ loc' = [loc EXCEPT ![c] = sd_step(params, loc[c])]
  /\ UNCHANGED <<params, gui, mth>>

NewtonStep(c) ==
  /\ AtStep(c, "Newton")
  /\ loc' = [loc EXCEPT ![c] = newton_step(params, loc[c])]
  /\ UNCHANGED <<params, gui, mth>>

\* a DFP step of an optimizer that keeps H on the instance (self.H): the
\* update is seen by every call in progress
DFPStepShared(c) ==
  /\ AtStep(c, "DFP")
  /\ loc' = [k \in Calls |->
              IF k = c THEN dfp_step(params, loc[c])
              ELSE [loc[k] EXCEPT !.H = dfp_step(params, loc[c]).H]]
  /\ UNCHANGED <<params, gui, mth>>

DFPStep(c) ==
  /\ AtStep(c, "DFP")
  /\ loc' = [loc EXCEPT ![c] = dfp_step(params, loc[c])]
  /\ UNCHANGED <<params, gui, mth>>

\* range(max_iter) is exhausted: the return after the loop
ReturnMaxIter(c) ==
  /\ loc[c].pc = "loop"
  /\ loc[c].i >= loc[c].max_iter
  /\ loc' = [loc EXCEPT ![c] = return_max_iter(loc[c])]
  /\ UNCHANGED <<params, gui, mth>>

\* ------------------------------------------------------------------------
\* OptimizationGUI (src/view/tank_view.py): state
\* ------------------------------------------------------------------------
\* the worker threads a session starts, one per click on the run button
Runs == 1..MaxRuns

\* methods_to_run.items(), in insertion order
methods_to_run == <<"Steepest Descent", "Newton", "DFP">>

\* the values of the method selector
MethodChoices == {"Todos"} \cup MethodNames

\* the value a method returns to the worker of run r
ResultOf(r, name) == [name |-> name, run |-> r]

\* a worker thread that has not been started
NoWorker ==
  [pc |-> "none", method |-> "", todo |-> <<>>, stale |-> FALSE,
   e_bound |-> FALSE]

\* the window after __init__: button enabled, self.results = {}, no worker,
\* no callback scheduled.  shown is a history variable: what each
\* _update_results read; errors: the exceptions of callbacks Tk reported
GuiInit ==
  [button |-> "normal", results |-> {}, run |-> 0,
   worker |-> [r \in Runs |-> NoWorker], after |-> <<>>, main |-> "idle",
   iterating |-> {}, plots |-> {}, dark_mode |-> TRUE, shown |-> <<>>,
   errors |-> <<>>]

\* ------------------------------------------------------------------------
\* src/methods: state
\* ------------------------------------------------------------------------
\* no function of src/methods has been called.  backed is a history
\* variable: the iterates and step sizes of the repair loop last entered
MethodsIdle ==
  [pc |-> "idle", fn |-> "", x0 |-> ZeroVec, x |-> ZeroVec, alpha |-> Zero,
   tol |-> Zero, max_iter |-> 0, i |-> 0, grad |-> ZeroVec, H |-> Eye(n),
   D |-> Zero, L |-> Zero, history |-> <<>>, iterations |-> 0,
   result |-> <<>>, backed |-> <<>>]

Init ==
  /\ params = DefaultParameters
  /\ loc = [c \in Calls |-> Idle]
  /\ gui = GuiInit
  /\ mth = MethodsIdle

Run(c) ==
  \/ SDIterate(c)
  \/ NewtonIterate(c)
  \/ DFPIterate(c)
  \/ LSTry(c)
  \/ LSExhaust(c)
  \/ SDStep(c)
  \/ NewtonStep(c)
  \/ DFPStep(c)
  \/ ReturnMaxIter(c)

Next ==
  \/ Call
  \/ CallAgain
  \/ \E c \in Calls : Run(c)

Spec == Init /\ [][Next]_vars

\* ------------------------------------------------------------------------
\* line_search_backtrack called on its own
\* ------------------------------------------------------------------------
\* the arguments of a direct call: the callable, the point, directions of
\* descent and of ascent and the zero direction, gradients (one huge, one
\* NaN, as the optimizers produce them far from the tank), alpha_init, c1, rho
LSFunctions == {"penalized_objective", "sphere"}
LSPoints == {<<One, One>>, <<Half, One>>}
LSDirections == {<<FNeg(One), FNeg(One)>>, <<One, One>>, ZeroVec,
                 <<FNeg(Hundred), Zero>>}
LSGradients == {<<Two, Two>>, <<FNeg(Dec(1, 60)), Zero>>, <<NaN, Zero>>}
LSAlphas == {One, Two}
LSC1s == {TenThousandth}
LSRhos == {Half, Dec(3, -2)}

\* line_search_backtrack(f, x, direction, grad, alpha_init, c1, rho), up to
\* its loop
line_search_backtrack(p, l, f, x, direction, grad, alpha_init, c1, rho) ==
  [l EXCEPT !.pc = "ls", !.method = "line_search_backtrack",
            !.x = x, !.grad = grad, !.direction = direction,
            !.ls = ls_enter(p, f, x, direction, grad, alpha_init, c1, rho),
            !.calls = 1]

LineSearchCall ==
  /\ loc[1].pc = "idle"
  /\ \E f \in LSFunctions, x \in LSPoints, direction \in LSDirections,
        grad \in LSGradients, alpha_init \in LSAlphas, c1 \in LSC1s,
        rho \in LSRhos :
       loc' = [loc EXCEPT ![1] = line_search_backtrack(params, loc[1], f, x,
                                   direction, grad, alpha_init, c1, rho)]
  /\ UNCHANGED <<params, gui, mth>>

LSNext ==
  \/ LineSearchCall
  \/ LSTry(1)
  \/ LSExhaust(1)

LineSearchSpec == Init /\ [][LSNext]_vars

\* ------------------------------------------------------------------------
\* Two calls running concurrently on one TankOptimizer
\* ------------------------------------------------------------------------
\* the calls (method, x0, h_grad) the two threads make, with max_iter = 1
\* and the default tolerance: the first thread a steepest descent from the
\* far point, whose line search runs out of passes, or a DFP run; the second
\* a Newton or a DFP run
ConcurrentX0 == <<Dec(3, -2), Dec(7, -2)>>
ConcurrentArgs(c) ==
  IF c = 1
  THEN {<<"Steepest Descent", <<Hundred, Hundred>>, One>>,
        <<"DFP", ConcurrentX0, Dec(1, -7)>>}
  ELSE {<<"Newton", ConcurrentX0, Dec(1, -7)>>,
        <<"DFP", ConcurrentX0, Dec(1, -7)>>}
ConcurrentMaxIterSet == {1}

\* the call c has started and has not returned
InProgress(c) == loc[c].pc \in {"loop", "ls", "step"}

\* a thread calls a method of the optimizer, whatever the other thread is
\* doing
ConcurrentCall(c) ==
  /\ loc[c].pc = "idle"
  /\ \E a \in ConcurrentArgs(c), max_iter \in ConcurrentMaxIterSet :
       loc' = [loc EXCEPT ![c] =
                 [start(params, loc[c], a[1], a[2], max_iter, Micro, a[3])
                    EXCEPT !.overlap = \E k \in Calls \ {c} : InProgress(k)]]
  /\ UNCHANGED <<params, gui, mth>>

\* the threads take their steps in any order
ConcurrentNext == \E c \in Calls : ConcurrentCall(c) \/ Run(c)

ConcurrentSpec == Init /\ [][ConcurrentNext]_vars

\* ------------------------------------------------------------------------
\* TankModel (src/models/tank_model.py)
\* ------------------------------------------------------------------------
\* TankModel.__init__: the constants of the problem
TankModel ==
  [V0 |-> Dec(858993459, -30), t |-> Dec(1030792151, -35),
   rho |-> FromInt(8000), L_max |-> Two, D_max |-> One,
   cm |-> Dec(603979776, -27), cw |-> FromInt(20)]

\* lines 16-19 with r = D / 2
massa_r(m, L, r) ==
  FMul(m.rho,
       FAdd(FMul(FMul(L, Pi), FSub(Sq(FAdd(r, m.t)), Sq(r))),
            FMul(FMul(FMul(Two, Pi), Sq(FAdd(r, m.t))), m.t)))

\* TankModel.massa
massa(m, D, L) == massa_r(m, L, FDiv(D, Two))

\* TankModel.solda
solda(m, D) == FMul(FMul(Four, Pi), FAdd(D, m.t))

\* TankModel.custo
custo(m, D, L) == FAdd(FMul(m.cm, massa(m, D, L)), FMul(m.cw, solda(m, D)))

\* ------------------------------------------------------------------------
\* src/methods: steepest_descent, newton_method and dfp_method on TankModel
\* ------------------------------------------------------------------------
\* TankModel.volume_util
volume_util(m, D, L) == FMul(FDiv(FMul(Pi, Sq(D)), Four), L)

\* TankModel.respeita_restricoes
respeita_restricoes(m, D, L) ==
  /\ FLeq(FMul(Dec(966367642, -30), m.V0), volume_util(m, D, L))
  /\ FLeq(volume_util(m, D, L), FMul(Dec(590558003, -29), m.V0))
  /\ FLeq(D, m.D_max)
  /\ FLeq(L, m.L_max)

\* the steps of the finite differences.  The source uses h = 1e-6 and
\* h = 1e-5, which a significand of Precision bits does not resolve next to
\* coordinates of size 1; custo is a polynomial of degree two, whose central
\* differences do not depend on h, so the model takes steps it resolves
GradientStep == Dec(1, -2)
HessianStep == Dec(1, -2)

\* the lower bound 0.01 of the clamp, and 1e-8 of the repair loop
BoxMin == Dec(687194767, -36)
AlphaMin == Dec(720575940, -56)

\* the builtins max(a, b) and min(a, b): the first argument unless the
\* second compares greater (smaller)
py_max(a, b) == IF FGt(b, a) THEN b ELSE a
py_min(a, b) == IF FLt(b, a) THEN b ELSE a

\* min(max(v, 0.01), hi)
clamp(v, hi) == py_min(py_max(v, BoxMin), hi)

\* numerical_gradient(model, x)
numerical_gradient(m, x, h) ==
  [k \in 1..Len(x) |->
     FDiv(FSub(custo(m, Bump(x, k, h)[1], Bump(x, k, h)[2]),
               custo(m, Bump(x, k, FNeg(h))[1], Bump(x, k, FNeg(h))[2])),
          FMul(Two, h))]

\* model.custo(*x)
custo_at(m, x) == custo(m, x[1], x[2])

\* numerical_hessian(model, x): methods/newton.py lines 17-48
numerical_hessian(m, x, h) ==
  [i \in 1..Len(x) |-> [j \in 1..Len(x) |->
     FDiv(FAdd(FSub(FSub(custo_at(m, Bump(Bump(x, i, h), j, h)),
                         custo_at(m, Bump(Bump(x, i, h), j, FNeg(h)))),
                    custo_at(m, Bump(Bump(x, i, FNeg(h)), j, h))),
               custo_at(m, Bump(Bump(x, i, FNeg(h)), j, FNeg(h)))),
          FMul(Four, Sq(h)))]]

\* A @ B
MatMul(A, B) ==
  [r \in 1..Len(A) |-> [k \in 1..Len(B[1]) |->
     Dot(A[r], [j \in 1..Len(B) |-> B[j][k]])]]

\* u.T @ A
VecMat(u, A) == [k \in 1..Len(A[1]) |-> Dot(u, [j \in 1..Len(A) |-> A[j][k]])]

\* methods/dfp.py line 53
dfp_H_update(H, dx, dg) ==
  MAdd(MAdd(H, MDiv(Outer(dx, dx), Dot(dx, dg))),
       MNeg(MDiv(MatMul(Outer(MatVec(H, dg), dg), H),
                 Dot(VecMat(dg, H), dg))))

\* the x0 and the options the functions are called with
MethodsX0Set == {<<One, One>>, <<Dec(858993459, -30), Dec(3, -1)>>, <<Half, One>>,
                 <<Dec(1, -2), Dec(1, -2)>>}
MethodsAlphaSet == {Dec(687194767, -36), Dec(1, -13), Dec(1, -20)}
MethodsFunctions == {"steepest_descent", "newton_method", "dfp_method"}

\* history.append((x.copy(), model.custo(*x), norm_grad))
history_append(l, grad) ==
  Append(l.history, <<l.x, custo_at(TankModel, l.x), Norm(grad)>>)

\* the function fn is called: the lines before the loop
MethodsCall ==
  /\ mth.pc \in {"idle", "done"}
  /\ \E fn \in MethodsFunctions, x0 \in MethodsX0Set,
        alpha \in MethodsAlphaSet, max_iter \in MaxIterSet :
       mth' = [MethodsIdle EXCEPT
                 !.pc = "loop", !.fn = fn, !.x0 = x0, !.x = x0,
                 !.alpha = alpha, !.tol = Micro, !.max_iter = max_iter,
                 !.grad = IF fn = "dfp_method"
                          THEN numerical_gradient(TankModel, x0, GradientStep)
                          ELSE ZeroVec]
  /\ UNCHANGED <<params, loc, gui>>

\* steepest_descent, lines 35-40 and 48-49 after the gradient grad
sd_descend(l, grad, x) ==
  [l EXCEPT !.grad = grad,
            !.history = history_append(l, grad),
            !.D = clamp(x[1], TankModel.D_max),
            !.L = clamp(x[2], TankModel.L_max),
            !.x = IF respeita_restricoes(TankModel, clamp(x[1], TankModel.D_max),
                                         clamp(x[2], TankModel.L_max))
                  THEN <<clamp(x[1], TankModel.D_max), clamp(x[2], TankModel.L_max)>>
                  ELSE x,
            !.pc = IF respeita_restricoes(TankModel, clamp(x[1], TankModel.D_max),
                                          clamp(x[2], TankModel.L_max))
                   THEN "loop" ELSE "repair",
            !.backed = IF respeita_restricoes(TankModel, clamp(x[1], TankModel.D_max),
                                              clamp(x[2], TankModel.L_max))
                       THEN @ ELSE <<>>,
            !.iterations = IF respeita_restricoes(TankModel, clamp(x[1], TankModel.D_max),
                                                  clamp(x[2], TankModel.L_max))
                           THEN @ + 1 ELSE @,
            !.i = IF respeita_restricoes(TankModel, clamp(x[1], TankModel.D_max),
                                         clamp(x[2], TankModel.L_max))
                  THEN @ + 1 ELSE @]

\* steepest_descent, lines 27-41: one pass of the loop up to the repair
sd_pass(l, grad) ==
  IF FLt(Norm(grad), l.tol)
  THEN [l EXCEPT !.grad = grad, !.history = history_append(l, grad),
                 !.pc = "return"]
  ELSE sd_descend(l, grad, VSub(l.x, VScale(l.alpha, grad)))

SteepestDescentIterate ==
  /\ mth.pc = "loop"
  /\ mth.fn = "steepest_descent"
  /\ mth.i < mth.max_iter
  /\ mth' = sd_pass(mth, numerical_gradient(TankModel, mth.x, GradientStep))
  /\ UNCHANGED <<params, loc, gui>>

\* the condition of the while of line 43: D and L are those of line 39-40
repair_goes_on(l) ==
  ~respeita_restricoes(TankModel, l.D, l.L) /\ FGt(l.alpha, AlphaMin)

\* lines 44-45: alpha is halved and x moved back
repair_back_off(l) ==
  [l EXCEPT !.alpha = FMul(l.alpha, Half),
            !.x = VAdd(l.x, VScale(FMul(l.alpha, Half), l.grad)),
            !.backed = Append(@, [alpha |-> FMul(l.alpha, Half),
                                  x |-> VAdd(l.x, VScale(FMul(l.alpha, Half), l.grad))])]

RepairBackOff ==
  /\ mth.pc = "repair"
  /\ repair_goes_on(mth)
  /\ mth' = repair_back_off(mth)
  /\ UNCHANGED <<params, loc, gui>>

\* lines 46-49: the loop is left, D, L = x
RepairExit ==
  /\ mth.pc = "repair"
  /\ ~repair_goes_on(mth)
  /\ mth' = [mth EXCEPT !.D = mth.x[1], !.L = mth.x[2], !.pc = "loop",
                        !.iterations = @ + 1, !.i = @ + 1]
  /\ UNCHANGED <<params, loc, gui>>

\* newton_method, lines 71-80 with the solution sol of hess dx = -grad
newton_move(l, grad, x) ==
  [l EXCEPT !.grad = grad,
            !.history = history_append(l, grad),
            !.D = clamp(x[1], TankModel.D_max),
            !.L = clamp(x[2], TankModel.L_max),
            !.x = <<clamp(x[1], TankModel.D_max), clamp(x[2], TankModel.L_max)>>,
            !.i = @ + 1,
            !.pc = IF respeita_restricoes(TankModel, clamp(x[1], TankModel.D_max),
                                          clamp(x[2], TankModel.L_max))
                   THEN "loop" ELSE "return"]

\* newton_method, lines 57-80
newton_pass(l, grad, hess) ==
  IF FLt(Norm(grad), l.tol) \/ ~Solve(hess, grad).ok
  THEN [l EXCEPT !.grad = grad, !.history = history_append(l, grad),
                 !.pc = "return"]
  ELSE newton_move(l, grad, VAdd(l.x, VNeg(Solve(hess, grad).x)))

NewtonMethodIterate ==
  /\ mth.pc = "loop"
  /\ mth.fn = "newton_method"
  /\ mth.i < mth.max_iter
  /\ mth' = newton_pass(mth, numerical_gradient(TankModel, mth.x, GradientStep),
                        numerical_hessian(TankModel, mth.x, HessianStep))
  /\ UNCHANGED <<params, loc, gui>>

\* dfp_method, lines 46-56: the step to x_new is kept
dfp_keep(l, x_new, grad_new) ==
  [l EXCEPT !.history = history_append(l, l.grad),
            !.D = x_new[1], !.L = x_new[2],
            !.H = dfp_H_update(l.H, VSub(x_new, l.x), VSub(grad_new, l.grad)),
            !.x = x_new,
            !.grad = grad_new,
            !.i = @ + 1]

\* dfp_method, lines 37-56 with x_new clamped
dfp_try(l, x_new) ==
  IF ~respeita_restricoes(TankModel, x_new[1], x_new[2])
  THEN [l EXCEPT !.history = history_append(l, l.grad),
                 !.D = x_new[1], !.L = x_new[2], !.pc = "return"]
  ELSE dfp_keep(l, x_new, numerical_gradient(TankModel, x_new, GradientStep))

\* dfp_method, lines 28-56
dfp_pass(l) ==
  IF FLt(Norm(l.grad), l.tol)
  THEN [l EXCEPT !.history = history_append(l, l.grad), !.pc = "return"]
  ELSE dfp_try(l, <<clamp(VAdd(l.x, VScale(One, VNeg(MatVec(l.H, l.grad))))[1],
                          TankModel.D_max),
                    clamp(VAdd(l.x, VScale(One, VNeg(MatVec(l.H, l.grad))))[2],
                          TankModel.L_max)>>)

DFPMethodIterate ==
  /\ mth.pc = "loop"
  /\ mth.fn = "dfp_method"
  /\ mth.i < mth.max_iter
  /\ mth' = dfp_pass(mth)
  /\ UNCHANGED <<params, loc, gui>>

\* the return statement of the three functions
methods_result(l) ==
  [solution |-> l.x, cost |-> custo_at(TankModel, l.x),
   iterations |-> IF l.fn = "steepest_descent" THEN l.iterations
                  ELSE Len(l.history),
   history |-> l.history]

\* the loop is left by break or because range(max_iter) is exhausted
MethodsReturn ==
  /\ \/ mth.pc = "return"
     \/ mth.pc = "loop" /\ mth.i >= mth.max_iter
  /\ mth' = [mth EXCEPT !.pc = "done", !.result = <<methods_result(mth)>>]
  /\ UNCHANGED <<params, loc, gui>>

MethodsNext ==
  \/ MethodsCall
  \/ SteepestDescentIterate
  \/ RepairBackOff
  \/ RepairExit
  \/ NewtonMethodIterate
  \/ DFPMethodIterate
  \/ MethodsReturn

MethodsSpec == Init /\ [][MethodsNext]_vars

\* ------------------------------------------------------------------------
\* The functions called on their own
\* ------------------------------------------------------------------------
\* coordinates of the points the functions are evaluated at: negative, zero,
\* inside and outside the bounds Dmax = 1 and Lmax = 2
CoordSet ==
  {FNeg(One), FNeg(Half), Zero, Dec(1, -2), Half, Dec(3, -2), One,
   Dec(7, -2), Two, Hundred}
PointSet == {<<D, L>> : D \in CoordSet, L \in CoordSet}
\* points and steps of the finite differences
FDPoints == {<<One, One>>, <<Half, One>>, <<FNeg(One), Two>>, ZeroVec,
             <<Dec(3, -2), Dec(5, -2)>>, <<Two, FromInt(3)>>,
             <<Hundred, Hundred>>}
FDSteps == {Micro, Dec(1, -7), Dec(1, -2), One}

\* the call name(x) returned value
evaluated(l, name, x, value) ==
  [l EXCEPT !.pc = "eval", !.method = name, !.x = x, !.f_history = <<value>>,
            !.calls = 0]

\* the call name(f, x, h) returned grad or hess after calls evaluations of f
differentiated(l, name, x, h, grad, hess, calls) ==
  [l EXCEPT !.pc = "eval", !.method = name, !.x = x, !.h_grad = h,
            !.f_history = <<>>, !.grad = grad, !.hess = hess,
            !.calls = calls]

CanEvaluate == loc[1].pc = "idle"

\* the caller has used the value and is free to make the next call
EvalDone ==
  /\ loc[1].pc = "eval"
  /\ loc' = [loc EXCEPT ![1] = Idle]
  /\ UNCHANGED <<params, gui, mth>>

EvalObjective ==
  /\ CanEvaluate
  /\ \E x \in PointSet :
       loc' = [loc EXCEPT ![1] = evaluated(Idle, "objective_function", x,
                                           objective_function(params, x))]
  /\ UNCHANGED <<params, gui, mth>>

EvalCusto ==
  /\ CanEvaluate
  /\ \E x \in PointSet :
       loc' = [loc EXCEPT ![1] = evaluated(Idle, "custo", x,
                                           custo(TankModel, x[1], x[2]))]
  /\ UNCHANGED <<params, gui, mth>>

EvalPenalty ==
  /\ CanEvaluate
  /\ \E x \in PointSet :
       loc' = [loc EXCEPT ![1] = evaluated(Idle, "constraints_penalty", x,
                                           constraints_penalty(params, x))]
  /\ UNCHANGED <<params, gui, mth>>

EvalGradient ==
  /\ CanEvaluate
  /\ \E x \in FDPoints, h \in FDSteps :
       loc' = [loc EXCEPT ![1] =
                 differentiated(Idle, "gradient_numerical", x, h,
                                gradient_numerical("sphere", params, x, h),
                                Eye(n), GradientCalls(x))]
  /\ UNCHANGED <<params, gui, mth>>

EvalHessian ==
  /\ CanEvaluate
  /\ \E x \in FDPoints, h \in FDSteps :
       loc' = [loc EXCEPT ![1] =
                 differentiated(Idle, "hessian_numerical", x, h, ZeroVec,
                                hessian_numerical("sphere", params, x, h),
                                HessianCalls(x))]
  /\ UNCHANGED <<params, gui, mth>>

\* ------------------------------------------------------------------------
\* The single-file variant (src/codigo.py): TankOptimizationModel
\* ------------------------------------------------------------------------
\* lines 67-72: hess[i,i] = (f(x_pp) - 2*fx + f(x_pm)) / (h**2)
codigo_diagonal(f, p, x, h, i) ==
  FDiv(FAdd(FSub(Apply(f, p, Bump(x, i, h)), FMul(Two, Apply(f, p, x))),
            Apply(f, p, Bump(x, i, FNeg(h)))),
       Sq(h))

\* lines 75-88, i < j: hess[i,j] = (f(x_pp) - f(x_pm) - f(x_mp) + fx) / (4*h*h)
codigo_off_diagonal(f, p, x, h, i, j) ==
  FDiv(FAdd(FSub(FSub(Apply(f, p, Bump(Bump(x, i, h), j, h)),
                      Apply(f, p, Bump(Bump(x, i, h), j, FNeg(h)))),
                 Apply(f, p, Bump(Bump(x, i, FNeg(h)), j, h))),
            Apply(f, p, x)),
       FMul(FMul(Four, h), h))

\* TankOptimizationModel.hessian; line 89 mirrors hess[i,j] into hess[j,i]
codigo_hessian(f, p, x, h) ==
  [r \in 1..Len(x) |-> [k \in 1..Len(x) |->
     IF r = k THEN codigo_diagonal(f, p, x, h, r)
     ELSE IF r < k THEN codigo_off_diagonal(f, p, x, h, r, k)
     ELSE codigo_off_diagonal(f, p, x, h, k, r)]]

\* the evaluations of f one hessian call performs: fx, two per diagonal
\* entry and three per pair i < j
CodigoHessianCalls(x) ==
  Cardinality({"fx"})
    + Cardinality((1..Len(x)) \X {"pp", "pm"})
    + Cardinality({q \in (1..Len(x)) \X (1..Len(x)) : q[1] < q[2]}
                  \X {"pp", "pm", "mp"})

\* line 144: evaluations += len(x)**2 * 4
codigo_hessian_increment(x) == Len(x) * Len(x) * 4

\* lines 142-147 with the outcome sol of np.linalg.solve(H, -grad)
codigo_direction(grad, sol) == IF sol.ok THEN sol.x ELSE VNeg(grad)

\* lines 134-147 of newton_method for an iteration that does not converge:
\* func_evals is the count the method reports, calls the evaluations done
codigo_newton_iter(l, f, p, x, h, grad, hess) ==
  [l EXCEPT !.pc = "eval", !.method = "codigo.newton_method",
            !.x = x, !.h_grad = h, !.grad = grad, !.hess = hess,
            !.direction = codigo_direction(grad, Solve(hess, VNeg(grad))),
            !.singulars = IF Solve(hess, VNeg(grad)).ok THEN 0 ELSE 1,
            !.func_evals = 2 * Len(x) + codigo_hessian_increment(x),
            !.calls = GradientCalls(x) + CodigoHessianCalls(x)]

EvalCodigoHessian ==
  /\ CanEvaluate
  /\ \E x \in FDPoints, h \in FDSteps :
       loc' = [loc EXCEPT ![1] =
                 differentiated(Idle, "codigo.hessian", x, h, ZeroVec,
                                codigo_hessian("sphere", params, x, h),
                                CodigoHessianCalls(x))]
  /\ UNCHANGED <<params, gui, mth>>

CodigoNewtonIterate ==
  /\ CanEvaluate
  /\ \E x \in FDPoints \ {ZeroVec}, h \in FDSteps :
       loc' = [loc EXCEPT ![1] =
                 codigo_newton_iter(Idle, "sphere", params, x, h,
                                    gradient_numerical("sphere", params, x, h),
                                    codigo_hessian("sphere", params, x, h))]
  /\ UNCHANGED <<params, gui, mth>>

FunctionNext ==
  \/ EvalObjective
  \/ EvalCusto
  \/ EvalPenalty
  \/ EvalGradient
  \/ EvalHessian
  \/ EvalCodigoHessian
  \/ CodigoNewtonIterate
  \/ EvalDone

FunctionSpec == Init /\ [][FunctionNext]_vars

\* ------------------------------------------------------------------------
\* OptimizationGUI: the main thread's handlers and the worker thread
\* ------------------------------------------------------------------------
\* the main thread is in its event loop, not inside a handler
MainIdle == gui.main = "idle"

\* self.results[name] = result on the dict d
dict_store(d, entry) == {x \in d : x.name # entry.name} \cup {entry}

\* run_optimization: lines 201-207
RunClick ==
  /\ MainIdle
  /\ gui.button = "normal"
  /\ gui.run < MaxRuns
  /\ gui' = [gui EXCEPT !.button = "disabled",
                        !.run = gui.run + 1,
                        !.worker[gui.run + 1] = [NoWorker EXCEPT !.pc = "read"]]
  /\ UNCHANGED <<params, loc, mth>>

\* _run_optimization_thread, lines 211-223: the entries are read; a
\* max_iter entry that is not an integer raises TclError
WorkerRead(r) ==
  /\ gui.worker[r].pc = "read"
  /\ \E parsable \in BOOLEAN, selected_method \in MethodChoices :
       gui' = [gui EXCEPT !.worker[r] =
                 IF parsable
                 THEN [@ EXCEPT !.pc = "clear", !.method = selected_method]
                 ELSE [@ EXCEPT !.pc = "except"]]
  /\ UNCHANGED <<params, loc, mth>>

\* lines 225-230: self.results.clear() and the choice of methods
WorkerClear(r) ==
  /\ gui.worker[r].pc = "clear"
  /\ gui' = [gui EXCEPT !.results = {},
                        !.worker[r].pc = "call",
                        !.worker[r].todo =
                          IF gui.worker[r].method = "Todos"
                          THEN methods_to_run
                          ELSE <<gui.worker[r].method>>]
  /\ UNCHANGED <<params, loc, mth>>

\* line 233: result = method_func(x0, max_iter, tolerance, h_grad)
WorkerCall(r) ==
  /\ gui.worker[r].pc = "call"
  /\ gui.worker[r].todo # <<>>
  /\ gui' = [gui EXCEPT !.worker[r].pc = "load"]
  /\ UNCHANGED <<params, loc, mth>>

\* line 234, first half: the attribute self.results is read
WorkerLoad(r) ==
  /\ gui.worker[r].pc = "load"
  /\ gui' = [gui EXCEPT !.worker[r].pc = "store", !.worker[r].stale = FALSE]
  /\ UNCHANGED <<params, loc, mth>>

\* line 234, second half: the item is stored in the dict that was read,
\* which self.results may no longer name
WorkerStore(r) ==
  /\ gui.worker[r].pc = "store"
  /\ gui' = [gui EXCEPT
               !.results = IF gui.worker[r].stale THEN @
                           ELSE dict_store(@, ResultOf(r, Head(gui.worker[r].todo))),
               !.worker[r].pc = "call",
               !.worker[r].todo = Tail(@)]
  /\ UNCHANGED <<params, loc, mth>>

\* line 236: self.root.after(0, self._update_results); the thread ends
WorkerSchedule(r) ==
  /\ gui.worker[r].pc = "call"
  /\ gui.worker[r].todo = <<>>
  /\ gui' = [gui EXCEPT !.after = Append(@, [kind |-> "update", run |-> r]),
                        !.worker[r].pc = "none"]
  /\ UNCHANGED <<params, loc, mth>>

\* lines 238-239: e is bound and the lambda that reads it is scheduled
WorkerExcept(r) ==
  /\ gui.worker[r].pc = "except"
  /\ gui' = [gui EXCEPT !.after = Append(@, [kind |-> "error", run |-> r]),
                        !.worker[r].pc = "exit_except",
                        !.worker[r].e_bound = TRUE]
  /\ UNCHANGED <<params, loc, mth>>

\* the end of the except clause: Python deletes e; the thread ends
WorkerExitExcept(r) ==
  /\ gui.worker[r].pc = "exit_except"
  /\ gui' = [gui EXCEPT !.worker[r].pc = "none", !.worker[r].e_bound = FALSE]
  /\ UNCHANGED <<params, loc, mth>>

\* _update_results as a callback of the event loop: lines 246-271
UpdateResults ==
  /\ MainIdle
  /\ gui.after # <<>>
  /\ Head(gui.after).kind = "update"
  /\ gui' = [gui EXCEPT
               !.after = Tail(@),
               !.plots = gui.results,
               !.button = "normal",
               !.shown = Append(@, [run |-> Head(gui.after).run,
                                    method |-> gui.worker[Head(gui.after).run].method,
                                    read |-> gui.results])]
  /\ UNCHANGED <<params, loc, mth>>

\* the lambda of line 239 as a callback: str(e) reads e, which raises
\* NameError when the except clause has ended; otherwise _show_error opens
\* the message box (line 243)
ErrorCallback ==
  /\ MainIdle
  /\ gui.after # <<>>
  /\ Head(gui.after).kind = "error"
  /\ gui' = IF gui.worker[Head(gui.after).run].e_bound
            THEN [gui EXCEPT !.after = Tail(@), !.main = "dialog"]
            ELSE [gui EXCEPT !.after = Tail(@),
                             !.errors = Append(@, "NameError")]
  /\ UNCHANGED <<params, loc, mth>>

\* _show_error, line 244: the message box is closed
DismissDialog ==
  /\ gui.main = "dialog"
  /\ gui' = [gui EXCEPT !.main = "idle", !.button = "normal"]
  /\ UNCHANGED <<params, loc, mth>>

\* clear_results: lines 350-354.  self.results is bound to a new dict: a
\* worker that has read the old one stores into the old one
ClearClick ==
  /\ MainIdle
  /\ gui' = [gui EXCEPT
               !.results = {},
               !.plots = {},
               !.worker = [r \in Runs |->
                             IF gui.worker[r].pc = "store"
                             THEN [gui.worker[r] EXCEPT !.stale = TRUE]
                             ELSE gui.worker[r]]]
  /\ UNCHANGED <<params, loc, mth>>

\* toggle_theme: lines 356-368, up to the test of self.results
ToggleTheme ==
  /\ MainIdle
  /\ gui' = IF gui.results # {}
            THEN [gui EXCEPT !.dark_mode = ~@, !.main = "plotting",
                             !.iterating = gui.results]
            ELSE [gui EXCEPT !.dark_mode = ~@, !.plots = {}]
  /\ UNCHANGED <<params, loc, mth>>

\* update_plots called by toggle_theme: the loops over self.results.items()
\* (lines 324, 337) raise RuntimeError when the dict has changed size
TogglePlot ==
  /\ gui.main = "plotting"
  /\ gui' = IF Cardinality(gui.results) = Cardinality(gui.iterating)
            THEN [gui EXCEPT !.main = "idle", !.iterating = {},
                             !.plots = gui.results]
            ELSE [gui EXCEPT !.main = "idle", !.iterating = {},
                             !.errors = Append(@, "RuntimeError")]
  /\ UNCHANGED <<params, loc, mth>>

Worker(r) ==
  \/ WorkerRead(r)
  \/ WorkerClear(r)
  \/ WorkerCall(r)
  \/ WorkerLoad(r)
  \/ WorkerStore(r)
  \/ WorkerSchedule(r)
  \/ WorkerExcept(r)
  \/ WorkerExitExcept(r)

GUINext ==
  \/ RunClick
  \/ ClearClick
  \/ ToggleTheme
  \/ TogglePlot
  \/ UpdateResults
  \/ ErrorCallback
  \/ DismissDialog
  \/ \E r \in Runs : Worker(r)

\* the worker threads run, a handler that has begun goes on, the message box
\* is closed, and the event loop serves every callback scheduled with after
GUIFairness ==
  /\ \A r \in Runs : WF_vars(Worker(r))
  /\ WF_vars(TogglePlot)
  /\ WF_vars(DismissDialog)
  /\ SF_vars(UpdateResults)
  /\ SF_vars(ErrorCallback)

GUISpec == Init /\ [][GUINext]_vars /\ GUIFairness

\* ------------------------------------------------------------------------
\* Properties
\* ------------------------------------------------------------------------
Returned(c) == loc[c].pc = "done"
Res(c) == loc[c].result[1]
KnownMethod(c) == loc[c].method \in MethodNames
\* the steps a call has taken so far
Steps(c) == Len(loc[c].exhausted)
\* the gradient norm at the starting point of call c
NormAtX0(c) ==
  Norm(gradient_numerical("penalized_objective", params, loc[c].x0,
                          loc[c].h_grad))

\* C1: every result returned for a positive max_iter has
\* len(x_history) = len(f_history) = iterations + 1 and
\* iterations <= max_iter, converged or not.
C1_HistoryLengths ==
  \A c \in Calls :
    (Returned(c) /\ loc[c].max_iter > 0) =>
      /\ Len(Res(c).x_history) = Res(c).iterations + 1
      /\ Len(Res(c).f_history) = Res(c).iterations + 1
      /\ Res(c).iterations <= loc[c].max_iter

\* a run that converged after one step, before max_iter was used up
C1_Witness ==
  \E c \in Calls :
    /\ Returned(c) /\ Res(c).converged
    /\ Res(c).iterations = 1 /\ loc[c].max_iter = 2
    /\ Len(Res(c).x_history) = 2

\* C2: a run of a known method ends only (a) by the loop-entry test, with
\* converged = TRUE, the last norm below tol and every earlier norm not, or
\* (b) after max_iter steps with no norm below tol, with converged = FALSE;
\* no run of a known method raises, whatever its line searches, Newton
\* systems and DFP updates did.
C2_TwoEndings ==
  \A c \in Calls :
    /\ (loc[c].pc = "error") => ~KnownMethod(c)
    /\ Returned(c) =>
         /\ \A k \in 1..(Len(Res(c).gradient_norms) - 1) :
              ~FLt(Res(c).gradient_norms[k], loc[c].tol)
         /\ IF Res(c).converged
            THEN /\ Res(c).gradient_norms # <<>>
                 /\ FLt(Last(Res(c).gradient_norms), loc[c].tol)
                 /\ Steps(c) = Len(Res(c).gradient_norms) - 1
            ELSE /\ Steps(c) = (IF loc[c].max_iter > 0
                                THEN loc[c].max_iter ELSE 0)
                 /\ Steps(c) = Len(Res(c).gradient_norms)
                 /\ Res(c).gradient_norms # <<>> =>
                      ~FLt(Last(Res(c).gradient_norms), loc[c].tol)

\* a Newton run whose first system gave no descent direction and whose first
\* line search ran out of passes, and which still took both of its steps
C2_Witness ==
  \E c \in Calls :
    /\ Returned(c) /\ ~Res(c).converged /\ loc[c].method = "Newton"
    /\ loc[c].max_iter = 2 /\ Steps(c) = 2
    /\ loc[c].exhausted[1]
    /\ loc[c].fallbacks > 0

\* C3: a run of a known method with positive max_iter whose gradient norm at
\* x0 is below tol returns iterations = 0, x_history = [x0] and
\* converged = TRUE, and never enters the line search.
C3_ConvergedAtStart ==
  \A c \in Calls :
    (KnownMethod(c) /\ loc[c].max_iter > 0
       /\ (Returned(c) \/ (loc[c].pc = "ls" /\ loc[c].ls.trials = 0))
       /\ FLt(NormAtX0(c), loc[c].tol)) =>
      /\ Returned(c)
      /\ Res(c).iterations = 0
      /\ Res(c).x_history = <<loc[c].x0>>
      /\ Res(c).converged
      /\ Steps(c) = 0

\* a run that returned at x0 on a gradient that is not zero
C3_Witness ==
  \E c \in Calls :
    /\ Returned(c) /\ loc[c].max_iter > 0
    /\ FLt(NormAtX0(c), loc[c].tol) /\ FLt(Zero, NormAtX0(c))
    /\ Res(c).iterations = 0 /\ Res(c).converged

\* the configuration of call c is invalid
InvalidConfiguration(c) ==
  \/ ~KnownMethod(c)
  \/ loc[c].max_iter <= 0
  \/ FLeq(loc[c].tol, Zero)

\* C4 as claimed: a call with an unknown method name, max_iter <= 0 or
\* tol <= 0 is rejected with an error before the loop, and returns no
\* OptimizationResult.
C4_InvalidRejected ==
  \A c \in Calls :
    (loc[c].pc # "idle" /\ InvalidConfiguration(c)) =>
      (loc[c].pc = "error" /\ loc[c].result = <<>>)

\* C5 as claimed: function_evaluations of a returned result is the number of
\* evaluations of the penalized objective the run performed.
C5_EvaluationsCounted ==
  \A c \in Calls :
    Returned(c) => Res(c).function_evaluations = loc[c].calls

\* the step lengths tried are alpha_init, alpha_init * rho,
\* alpha_init * rho^2, ... in this order, at most LineSearchCap of them
TrialLadder(s) ==
  /\ Len(s.tried) <= LineSearchCap
  /\ \A j \in 1..Len(s.tried) :
       s.tried[j] = (IF j = 1 THEN s.alpha_init
                     ELSE FMul(s.tried[j - 1], s.rho))
\* the trials, counted from k = 0, that satisfy the Armijo condition
Acceptable(s) ==
  {k \in 0..(Len(s.tried) - 1) : Armijo(params, s, s.tried[k + 1])}
\* the smallest of a non-empty set of numbers
Least(S) == CHOOSE k \in S : \A j \in S : k <= j
\* what the claim promises of the returned pair when the trials in S are the
\* acceptable ones: the first of them is returned, with its count
ReturnsFirst(s, S) ==
  IF S # {}
  THEN /\ s.ret[1].alpha = s.tried[Least(S) + 1]
       /\ s.ret[1].evals = Least(S) + 1
       /\ Len(s.tried) = Least(S) + 1
       /\ Armijo(params, s, s.ret[1].alpha)
  ELSE Len(s.tried) = LineSearchCap

\* C6: when some trial alpha_init * rho^k with 0 <= k <= 49 satisfies the
\* Armijo condition, line_search_backtrack returns the one with the smallest
\* k, together with the count k + 1 of the trial points it evaluated.
C6_FirstArmijo ==
  \A c \in Calls :
    /\ TrialLadder(loc[c].ls)
    /\ (loc[c].ls.ret # <<>>) =>
         ReturnsFirst(loc[c].ls, Acceptable(loc[c].ls))

\* a direct call that rejected at least two trials before it accepted one
C6_Witness ==
  /\ loc[1].method = "line_search_backtrack"
  /\ loc[1].ls.ret # <<>>
  /\ loc[1].ls.accepted
  /\ loc[1].ls.ret[1].evals >= 3
  /\ Armijo(params, loc[1].ls, loc[1].ls.ret[1].alpha)

\* the line search of call c has made at most LineSearchCap trials, and if it
\* returned without accepting one it made exactly LineSearchCap
WithinCap(c) ==
  /\ loc[c].ls.trials <= LineSearchCap
  /\ (loc[c].ls.ret # <<>> /\ ~loc[c].ls.accepted) =>
       /\ loc[c].ls.trials = LineSearchCap
       /\ loc[c].ls.ret[1].evals = LineSearchCap

\* a step of the line search of call c either returns or evaluates one more
\* trial point
Progress(c) ==
  (loc[c].pc = "ls" /\ loc'[c] # loc[c]) =>
    \/ loc'[c].ls.ret # <<>>
    \/ loc'[c].ls.trials = loc[c].ls.trials + 1

\* C7: line_search_backtrack always returns: every pass of its loop
\* evaluates one more trial point, it makes at most 50 trial evaluations,
\* and exactly 50 when no trial satisfies the condition.
C7_Terminates ==
  /\ [](\A c \in Calls : WithinCap(c))
  /\ [][\A c \in Calls : Progress(c)]_vars

\* a direct call along a direction on which no trial is accepted: it
\* returned after 50 attempts
C7_Witness ==
  /\ loc[1].method = "line_search_backtrack"
  /\ loc[1].ls.ret # <<>>
  /\ ~loc[1].ls.accepted
  /\ loc[1].ls.trials = LineSearchCap
  /\ Acceptable(loc[1].ls) = {}

\* C8: two calls of the same method on the same optimizer with the same
\* x0, max_iter, tol and h return equal OptimizationResults.
C8_Deterministic ==
  (Returned(1) /\ Returned(2)) =>
    /\ loc[2].x0 = loc[1].x0
    /\ loc[2].result = loc[1].result

\* both calls of a DFP run of two steps have returned
C8_Witness ==
  /\ Returned(1) /\ Returned(2)
  /\ loc[1].method = "DFP" /\ loc[2].method = "DFP"
  /\ Res(1).iterations = 2 /\ Res(2).iterations = 2
  /\ Res(1).final_x # loc[1].x0
  /\ loc[1].skipped < 2

\* C9 as claimed: every result returned for a positive max_iter has
\* len(gradient_norms) = iterations, converged or not.
C9_NormsOneShorter ==
  \A c \in Calls :
    (Returned(c) /\ loc[c].max_iter > 0) =>
      Len(Res(c).gradient_norms) = Res(c).iterations

\* C9 amended: a result returned for a positive max_iter has
\* len(gradient_norms) = iterations + 1 = len(x_history) when the run
\* converged, and len(gradient_norms) = iterations = len(x_history) - 1 when
\* it exhausted max_iter.
C9_NormsPerPass ==
  \A c \in Calls :
    (Returned(c) /\ loc[c].max_iter > 0) =>
      IF Res(c).converged
      THEN /\ Len(Res(c).gradient_norms) = Res(c).iterations + 1
           /\ Len(Res(c).gradient_norms) = Len(Res(c).x_history)
      ELSE /\ Len(Res(c).gradient_norms) = Res(c).iterations
           /\ Len(Res(c).gradient_norms) = Len(Res(c).x_history) - 1

\* a DFP run that converged in its second pass: two norms, one iteration
C9_Witness ==
  \E c \in Calls :
    /\ Returned(c) /\ Res(c).converged /\ loc[c].method = "DFP"
    /\ Res(c).iterations = 1
    /\ Len(Res(c).gradient_norms) = 2

\* C10 as claimed: the final_f of a run that exhausted max_iter is the
\* minimum of its f_history.
C10_FinalIsBest ==
  \A c \in Calls :
    (Returned(c) /\ ~Res(c).converged) =>
      \A k \in 1..Len(Res(c).f_history) :
        FLeq(Res(c).final_f, Res(c).f_history[k])

\* the array objects that x_history of call c holds
HistoryObjects(c) ==
  {loc[c].ref.x_history[k] : k \in 1..Len(loc[c].ref.x_history)}

\* C11: in a run of a known method the caller's array x0 keeps its content,
\* every entry of x_history is an object of its own (not x0, not the live
\* iterate / final_x, not another entry), and every entry still holds the
\* point that was recorded when it was appended.
C11_NoAliasing ==
  \A c \in Calls :
    (KnownMethod(c) /\ loc[c].pc # "idle") =>
      /\ loc[c].heap[loc[c].ref.x0] = loc[c].x0
      /\ (c = 2) => loc[c].heap[loc[c].ref.x0] = loc[1].x0
      /\ loc[c].heap[loc[c].ref.x] = loc[c].x
      /\ Cardinality(HistoryObjects(c)) = Len(loc[c].ref.x_history)
      /\ loc[c].ref.x0 \notin HistoryObjects(c)
      /\ loc[c].ref.x \notin HistoryObjects(c)
      /\ loc[c].ref.x # loc[c].ref.x0
      /\ Len(loc[c].ref.x_history) = Len(loc[c].x_history)
      /\ \A k \in 1..Len(loc[c].x_history) :
           loc[c].heap[loc[c].ref.x_history[k]] = loc[c].x_history[k]
      /\ Returned(c) => Res(c).final_x = loc[c].heap[loc[c].ref.x]

\* a DFP run that moved twice away from x0 and returned
C11_Witness ==
  \E c \in Calls :
    /\ Returned(c) /\ loc[c].method = "DFP"
    /\ Len(loc[c].x_history) = 3
    /\ loc[c].x_history[2] # loc[c].x_history[1]
    /\ loc[c].x_history[3] # loc[c].x_history[2]
    /\ loc[c].heap[loc[c].ref.x0] = loc[c].x_history[1]

\* call 1 evaluated the function name
Evaluated(name) == loc[1].pc = "eval" /\ loc[1].method = name

\* C12 as claimed (cost functions): objective_function and TankModel.custo
\* return +infinity at every point with D <= 0 or L <= 0.
C12_InfiniteOutsideDomain ==
  ((Evaluated("objective_function") \/ Evaluated("custo"))
     /\ (FLeq(loc[1].x[1], Zero) \/ FLeq(loc[1].x[2], Zero))) =>
    loc[1].f_history[1] = PInf

\* the line-search half of C12, for a finite slope g.d: a trial point whose
\* objective is +infinity is not the one returned as accepted when f(x) is
\* finite.
InfiniteTrialRejected ==
  \A c \in Calls :
    (loc[c].ls.ret # <<>> /\ loc[c].ls.accepted
       /\ loc[c].ls.f_x.c = "fin"
       /\ loc[c].ls.grad_dot_direction.c = "fin") =>
      Apply(loc[c].ls.f, params,
            VAdd(loc[c].ls.x,
                 VScale(loc[c].ls.ret[1].alpha, loc[c].ls.direction))) # PInf

\* feasible(D, L) for the volume V = pi*D^2*L/4:
\* 0.9*V0 <= V <= 1.1*V0 and D <= Dmax and L <= Lmax
FeasibleVolume(p, D, L, V) ==
  /\ FLeq(FMul(Dec(966367642, -30), p.V0), V)
  /\ FLeq(V, FMul(Dec(590558003, -29), p.V0))
  /\ FLeq(D, p.Dmax)
  /\ FLeq(L, p.Lmax)

Feasible(p, x) ==
  FeasibleVolume(p, x[1], x[2], FDiv(FMul(FMul(Pi, Sq(x[1])), x[2]), Four))

\* C13 as claimed: constraints_penalty is never negative and is exactly
\* zero at every point of the feasible region.
C13_ZeroWhenFeasible ==
  Evaluated("constraints_penalty") =>
    /\ FLeq(Zero, loc[1].f_history[1])
    /\ Feasible(params, loc[1].x) => loc[1].f_history[1] = Zero

\* C13, amended: constraints_penalty is never negative, and it is exactly zero
\* at the feasible points with D > 0 and L > 0 and at no other point (a term
\* contributes only when its own condition holds, and the conditions D <= 0
\* and L <= 0 are conditions of the penalty too).
C13_OneSided ==
  Evaluated("constraints_penalty") =>
    /\ FLeq(Zero, loc[1].f_history[1])
    /\ loc[1].f_history[1] = Zero <=>
         /\ Feasible(params, loc[1].x)
         /\ FGt(loc[1].x[1], Zero)
         /\ FGt(loc[1].x[2], Zero)

C13_Witness ==
  /\ Evaluated("constraints_penalty")
  /\ Feasible(params, loc[1].x)
  /\ FGt(loc[1].x[1], Zero)
  /\ loc[1].x # <<One, One>>
  /\ loc[1].f_history[1] = Zero

\* P * 2^k < Q for naturals P, Q < 2^23
ScaledLt(P, Q, k) ==
  IF k >= 0 THEN k < 24 /\ P < (Q + 2^k - 1) \div (2^k)
  ELSE -k >= 24 \/ P \div (2^(-k)) < Q

\* a * b < c * d, exactly, for finite floats with a * b >= 0 and c, d > 0
ProductLt(a, b, c, d) ==
  \/ a.m = 0
  \/ b.m = 0
  \/ ScaledLt(Abs(a.m) * Abs(b.m), c.m * d.m, (a.e + b.e) - (c.e + d.e))

AllFinite(A) ==
  \A r \in 1..Len(A) : \A k \in 1..Len(A[r]) : A[r][k].c = "fin"

Symmetric(A) == \A r \in 1..Len(A) : \A k \in 1..Len(A) : A[r][k] = A[k][r]

\* a symmetric 2 x 2 matrix is positive definite iff its diagonal is positive
\* and its determinant is positive
PositiveDefinite(A) ==
  /\ AllFinite(A)
  /\ A[1][1].m > 0
  /\ A[2][2].m > 0
  /\ ProductLt(A[1][2], A[2][1], A[1][1], A[2][2])

\* C14 as claimed: the H of a dfp_method run is symmetric and positive
\* definite at the start and after every iteration that applied the update
\* (an iteration that skips the update leaves H as it was).
C14_SymmetricPositiveDefinite ==
  \A c \in Calls :
    (loc[c].method = "DFP" /\ loc[c].pc \notin {"idle", "error"}) =>
      Symmetric(loc[c].H) /\ PositiveDefinite(loc[c].H)

\* the analytic gradient and Hessian of f(x, y) = x^2 + y^2
sphere_gradient(x) == VScale(Two, x)
sphere_hessian(x) == MScale(Two, Eye(Len(x)))

\* a is a whole multiple of 1/4
Quarters(a) == a.c = "fin" /\ (a.e >= -2 \/ a.m % (2^(-2 - a.e)) = 0)

\* the coordinates of x and the step h are multiples of 1/4 with
\* |x_i| + 2h <= 5: every stencil value and every difference of the two
\* routines is then a float, and no operation rounds
ExactStencil(x, h) ==
  /\ Quarters(h)
  /\ FGt(h, Zero)
  /\ \A k \in 1..Len(x) :
       /\ Quarters(x[k])
       /\ FLeq(FAdd(FAbs(x[k]), FMul(Two, h)), FromInt(5))

\* C15 as claimed: at every point and step, gradient_numerical returns the
\* analytic gradient of x^2 + y^2 and hessian_numerical its analytic Hessian.
C15_AnalyticEverywhere ==
  /\ Evaluated("gradient_numerical") =>
       loc[1].grad = sphere_gradient(loc[1].x)
  /\ Evaluated("hessian_numerical") =>
       loc[1].hess = sphere_hessian(loc[1].x)

\* C15, amended: gradient_numerical evaluates f exactly 2n times and
\* hessian_numerical exactly 4n^2 times (four per ordered pair), at every
\* point and step; the values returned are the analytic gradient and Hessian
\* of x^2 + y^2 when no operation of the stencil rounds.
C15_StencilCounts ==
  /\ Evaluated("gradient_numerical") =>
       /\ loc[1].calls = 2 * n
       /\ ExactStencil(loc[1].x, loc[1].h_grad) =>
            loc[1].grad = sphere_gradient(loc[1].x)
  /\ Evaluated("hessian_numerical") =>
       /\ loc[1].calls = 4 * n * n
       /\ ExactStencil(loc[1].x, loc[1].h_grad) =>
            loc[1].hess = sphere_hessian(loc[1].x)

C15_Witness ==
  /\ Evaluated("hessian_numerical")
  /\ ExactStencil(loc[1].x, loc[1].h_grad)
  /\ loc[1].x = <<Dec(3, -2), Dec(5, -2)>>
  /\ loc[1].hess = sphere_hessian(loc[1].x)
  /\ loc[1].calls = 16

\* the next step of a call that runs alone: the loop of its method, the
\* line search inside it, the step after the line search
call_iter(p, l) ==
  IF l.method = "Steepest Descent" THEN sd_iter(p, l)
  ELSE IF l.method = "Newton" THEN newton_iter(p, l)
  ELSE dfp_iter(p, l)

call_move(p, l) ==
  IF l.method = "Steepest Descent" THEN sd_step(p, l)
  ELSE IF l.method = "Newton" THEN newton_step(p, l)
  ELSE dfp_step(p, l)

call_step(p, l) ==
  IF l.pc = "loop"
  THEN IF l.i < l.max_iter THEN call_iter(p, l) ELSE return_max_iter(l)
  ELSE IF l.pc = "ls"
  THEN IF l.ls.k < LineSearchCap THEN ls_pass(p, l) ELSE ls_give_up(l)
  ELSE call_move(p, l)

\* the call run to its return with no other call in progress
RECURSIVE RunAlone(_, _)
RunAlone(p, l) ==
  IF l.pc \in {"loop", "ls", "step"} THEN RunAlone(p, call_step(p, l)) ELSE l

\* what the call c returns when it is the only call
ResultAlone(c) ==
  RunAlone(params, start(params, Idle, loc[c].method, loc[c].x0,
                         loc[c].max_iter, loc[c].tol, loc[c].h_grad)).result

\* C17: under every interleaving of the steps of two concurrent calls, a
\* call that has returned has returned exactly the result it returns when
\* run alone, and Parameters is as it was constructed.
C17_Isolated ==
  /\ params = DefaultParameters
  /\ \A c \in Calls : Returned(c) => loc[c].result = ResultAlone(c)

\* two calls of different methods have both returned, the second having
\* started while the first was in progress
C17_Witness ==
  /\ Returned(1) /\ Returned(2)
  /\ loc[2].overlap
  /\ loc[1].method = "DFP" /\ loc[2].method = "Newton"
  /\ Res(1).iterations = 1 /\ Res(2).iterations = 1
  /\ Res(1).final_x # Res(2).final_x

\* the regularisation of level k of the ladder: 1e-8 multiplied k times by 10
RECURSIVE RegLevel(_)
RegLevel(k) == IF k = 0 THEN Reg0 ELSE FMul(RegLevel(k - 1), Ten)

\* the levels from 1e-8 up to and including 1e2
LadderLevels == 0..10

\* the solution of (hess + reg*I) d = -grad at level k
LevelSolution(hess, grad, k) ==
  Solve(MAdd(hess, MScale(RegLevel(k), Eye(Len(grad)))), VNeg(grad))

\* level k is accepted: the system is not singular and d.g < 0
LevelAccepted(hess, grad, k) ==
  /\ LevelSolution(hess, grad, k).ok
  /\ FLt(Dot(LevelSolution(hess, grad, k).x, grad), Zero)

\* the direction the ladder hands over as the claim describes it: the
\* solution of the first accepted level, or -g if no level is accepted
LadderDirection(hess, grad) ==
  IF \E k \in LadderLevels : LevelAccepted(hess, grad, k)
  THEN LevelSolution(hess, grad,
         Least({k \in LadderLevels : LevelAccepted(hess, grad, k)})).x
  ELSE VNeg(grad)

\* a Newton iteration of call c has just handed its direction to the line
\* search
NewtonSearchEntered(c) ==
  /\ loc[c].method = "Newton"
  /\ loc[c].pc = "ls"
  /\ loc[c].ls.trials = 0

\* the ladder half of C18: the direction of a Newton iteration is the
\* solution of the first accepted level from 1e-8 to 1e2, or -g.
NewtonLadderAsDescribed ==
  \A c \in Calls :
    NewtonSearchEntered(c) =>
      /\ RegLevel(10) = Hundred
      /\ loc[c].direction = LadderDirection(loc[c].hess, loc[c].grad)

\* C18 as claimed: the direction of a Newton iteration is the one the ladder
\* describes and, whenever the gradient is not zero, it satisfies d.g < 0.
C18_DescentDirection ==
  \A c \in Calls :
    NewtonSearchEntered(c) =>
      /\ loc[c].direction = LadderDirection(loc[c].hess, loc[c].grad)
      /\ loc[c].grad # ZeroVec =>
           FLt(Dot(loc[c].direction, loc[c].grad), Zero)

\* H + s s^T/(s.y) - (H y)(H y)^T/(y.H y)
ClaimedUpdate(H, s, y) ==
  MAdd(MAdd(H, MDiv(Outer(s, s), Dot(s, y))),
       MNeg(MDiv(Outer(MatVec(H, y), MatVec(H, y)), Dot(y, MatVec(H, y)))))

\* the step of a DFP iteration from the record l to the record m, with the
\* step s = alpha * direction and the difference y of the two gradients
DFPStepAsDescribed(p, l, m, s, y) ==
  /\ m.H = IF FGt(Dot(s, y), CurvatureEps) THEN ClaimedUpdate(l.H, s, y)
           ELSE l.H
  /\ m.x = VAdd(l.x, s)
  /\ m.grad = gradient_numerical("penalized_objective", p, m.x, l.h_grad)
  /\ m.x_history = Append(l.x_history, m.x)
  /\ m.f_history = Append(l.f_history, penalized_objective(p, m.x))
  /\ m.gradient_norms = l.gradient_norms
  /\ m.i = l.i + 1
  /\ m.pc = "loop"

\* what a DFP call may do to its H in one transition
DFPFrame(c) ==
  (loc[c].method = "DFP" /\ loc'[c] # loc[c]) =>
    IF loc[c].pc = "step"
    THEN DFPStepAsDescribed(params, loc[c], loc'[c],
                            VScale(loc[c].ls.ret[1].alpha, loc[c].direction),
                            VSub(loc'[c].grad, loc[c].grad))
    ELSE loc'[c].H = loc[c].H

\* H is the identity until the first iteration has taken its step
DFPStartsAtIdentity ==
  \A c \in Calls :
    (loc[c].method = "DFP" /\ loc[c].i = 0 /\ loc[c].pc # "idle") =>
      loc[c].H = Eye(n)

\* C19: in dfp_method H is the identity before the first iteration and is
\* changed only by the step of an iteration: replaced by
\* H + s s^T/(s.y) - (H y)(H y)^T/(y.H y) iff s.y > 1e-12, kept as it is
\* otherwise; in both cases the iterate, the stored gradient and the
\* histories are advanced and the loop continues.
C19_UpdateOrSkip ==
  /\ []DFPStartsAtIdentity
  /\ [][\A c \in Calls : DFPFrame(c)]_vars

\* a DFP run of two steps that applied one update and skipped the other
C19_Witness ==
  \E c \in Calls :
    /\ Returned(c)
    /\ loc[c].method = "DFP"
    /\ Res(c).iterations = 2
    /\ loc[c].skipped = 1
    /\ loc[c].H # Eye(n)

\* the step lengths at which the line search s evaluated the objective
TriedAlphas(s) == {s.tried[k] : k \in 1..Len(s.tried)}

\* C20 as claimed: a line search that reached its cap of 50 attempts without
\* accepting one returns the last (smallest) alpha it tried, a step length
\* at which the objective was evaluated.
C20_ReturnsLastTried ==
  \A c \in Calls :
    (loc[c].ls.ret # <<>> /\ ~loc[c].ls.accepted) =>
      /\ loc[c].ls.ret[1].alpha = Last(loc[c].ls.tried)
      /\ loc[c].ls.ret[1].alpha \in TriedAlphas(loc[c].ls)

\* what the code returns at the cap: the last alpha tried multiplied once
\* more by rho, a step length that was never evaluated unless the
\* multiplication left alpha as it was
ReturnsShrunkAlpha ==
  \A c \in Calls :
    (loc[c].ls.ret # <<>> /\ ~loc[c].ls.accepted) =>
      /\ Len(loc[c].ls.tried) = LineSearchCap
      /\ loc[c].ls.ret[1].alpha = FMul(Last(loc[c].ls.tried), loc[c].ls.rho)

\* the gradient estimate of call c at its k-th recorded point
GradientAt(c, k) ==
  gradient_numerical("penalized_objective", params, loc[c].x_history[k],
                     loc[c].h_grad)

\* the states in which the norms of call c are compared with the gradients
\* at its recorded points: at the call of a line search, and at the return
\* as long as no later call has started
NormsSettled(c) ==
  \/ Returned(c) /\ \A k \in Calls : k > c => loc[k].pc = "idle"
  \/ loc[c].pc = "ls" /\ loc[c].ls.trials = 0

\* C21: the test of iteration i is applied, before the step of that
\* iteration, to the gradient at x_history[i]: gradient_norms[i] is the norm
\* of the gradient at x_history[i] for every recorded i, and the gradient
\* dfp_method carries from one iteration to the next is the gradient at the
\* current iterate.
C21_NormAtCurrentIterate ==
  \A c \in Calls :
    (KnownMethod(c) /\ NormsSettled(c)) =>
      /\ Len(loc[c].gradient_norms) <= Len(loc[c].x_history)
      /\ loc[c].pc = "ls" =>
           /\ Len(loc[c].gradient_norms) = Len(loc[c].x_history)
           /\ Len(loc[c].x_history) = loc[c].i + 1
      /\ \A k \in 1..Len(loc[c].gradient_norms) :
           loc[c].gradient_norms[k] = Norm(GradientAt(c, k))
      /\ loc[c].method = "DFP" =>
           loc[c].grad = GradientAt(c, Len(loc[c].x_history))

\* a DFP run that tested the gradient at two different points
C21_Witness ==
  \E c \in Calls :
    /\ Returned(c)
    /\ loc[c].method = "DFP"
    /\ Len(loc[c].gradient_norms) = 2
    /\ loc[c].gradient_norms[1] # loc[c].gradient_norms[2]
    /\ loc[c].gradient_norms[2].c = "fin"

\* C22 as claimed: the off-diagonal entries of TankOptimizationModel.hessian
\* are the symmetric 4-point central second differences, and for
\* f(x, y) = x^2 + y^2 the matrix returned is the analytic Hessian whenever
\* no operation of the stencil rounds.
C22_SymmetricStencil ==
  (Evaluated("codigo.hessian")
     /\ ExactStencil(loc[1].x, loc[1].h_grad)) =>
    /\ loc[1].hess[1][2] =
         hessian_numerical("sphere", params, loc[1].x, loc[1].h_grad)[1][2]
    /\ loc[1].hess = sphere_hessian(loc[1].x)

\* what the code computes instead for x^2 + y^2, where no operation rounds:
\* the diagonal is analytic and both off-diagonal entries are
\* (x + y - h) / (2h)
CodigoOffDiagonalOfSphere ==
  (Evaluated("codigo.hessian")
     /\ ExactStencil(loc[1].x, loc[1].h_grad)) =>
    /\ loc[1].hess[1][1] = Two /\ loc[1].hess[2][2] = Two
    /\ loc[1].hess[2][1] = loc[1].hess[1][2]
    /\ loc[1].hess[1][2] =
         FDiv(FSub(FAdd(loc[1].x[1], loc[1].x[2]), loc[1].h_grad),
              FMul(Two, loc[1].h_grad))

\* C23 as claimed: the count newton_method reports for an iteration that
\* evaluated the Hessian equals the number of objective evaluations that
\* iteration performed for the gradient and the Hessian, whether or not the
\* linear solve then failed.
C23_CountMatchesStencil ==
  Evaluated("codigo.newton_method") => loc[1].func_evals = loc[1].calls

\* the half of C23 that holds: the increment 4n^2 is added in every iteration
\* that evaluated the Hessian, a failed solve included, and the hessian call
\* performs 1 + 2n + 3n(n-1)/2 evaluations
CodigoIncrementAlwaysAdded ==
  Evaluated("codigo.newton_method") =>
    /\ loc[1].func_evals = 2 * n + 4 * n * n
    /\ loc[1].calls = 2 * n + 1 + 2 * n + (3 * n * (n - 1)) \div 2
    /\ loc[1].singulars = 1 => loc[1].direction = VNeg(loc[1].grad)

\* the entries of the sequence of norms q that are below tol
BelowTol(q, tol) == {k \in 1..Len(q) : FLt(q[k], tol)}

\* C24: a run with max_iter >= 1 that returns converged = true has
\* iterations < max_iter and its last gradient norm, and no earlier one, is
\* below tol; a run that returns converged = false has iterations = max_iter
\* and no gradient norm below tol; the gradient at the point reached by the
\* max_iter-th step is not among the norms.
C24_ConvergedIffTested ==
  \A c \in Calls :
    (Returned(c) /\ loc[c].max_iter >= 1) =>
      IF Res(c).converged
      THEN /\ Res(c).iterations < loc[c].max_iter
           /\ BelowTol(Res(c).gradient_norms, loc[c].tol)
                = {Len(Res(c).gradient_norms)}
      ELSE /\ Res(c).iterations = loc[c].max_iter
           /\ BelowTol(Res(c).gradient_norms, loc[c].tol) = {}
           /\ Len(Res(c).gradient_norms) = Len(Res(c).x_history) - 1

\* a run that converged after taking a step
C24_Witness ==
  \E c \in Calls :
    /\ Returned(c)
    /\ Res(c).converged
    /\ Res(c).iterations >= 1
    /\ Len(Res(c).gradient_norms) = Res(c).iterations + 1

\* C25 as claimed: a step whose line search returned before its cap
\* (accepted by the Armijo test) does not increase the recorded objective:
\* f_history[k+1] <= f_history[k].
C25_AcceptedStepsDescend ==
  \A c \in Calls :
    KnownMethod(c) =>
      \A k \in 1..Len(loc[c].exhausted) :
        ~loc[c].exhausted[k] =>
          FLeq(loc[c].f_history[k + 1], loc[c].f_history[k])

\* a run of two steps: the first accepted by the Armijo test with a strict
\* decrease of the objective, the second taken after an exhausted line search
C25_Witness ==
  \E c \in Calls :
    /\ KnownMethod(c)
    /\ loc[c].exhausted = <<FALSE, TRUE>>
    /\ FLt(loc[c].f_history[2], loc[c].f_history[1])

\* the call run alone up to its first step, or to its return if it takes none
RECURSIVE ToFirstStep(_, _)
ToFirstStep(p, l) ==
  IF l.pc \in {"loop", "ls", "step"} /\ Len(l.x_history) < 2
  THEN ToFirstStep(p, call_step(p, l))
  ELSE l

\* dfp_method called with the arguments of call c, up to its first step
DFPTwin(c) ==
  ToFirstStep(params, start(params, Idle, "DFP", loc[c].x0, loc[c].max_iter,
                            loc[c].tol, loc[c].h_grad))

\* the steepest descent call c has just taken its first step, or has
\* returned without taking one
FirstStepTaken(c) ==
  /\ loc[c].method = "Steepest Descent"
  /\ loc[c].max_iter >= 1
  /\ \/ loc[c].pc = "loop" /\ loc[c].i = 1
     \/ Returned(c) /\ Res(c).iterations = 0 /\ loc[3 - c].pc = "idle"

\* what the two methods have recorded after the first step, or return when
\* they take none: the same points and objectives and, in a zero-step
\* result, the same norms, counts and flags
SameFirstStep(l, d) ==
  /\ d.x_history = l.x_history
  /\ d.f_history = l.f_history
  /\ d.pc = l.pc
  /\ d.pc = "done" =>
       /\ d.result[1].gradient_norms = l.result[1].gradient_norms
       /\ d.result[1].iterations = l.result[1].iterations
       /\ d.result[1].converged = l.result[1].converged
       /\ d.result[1].function_evaluations = l.result[1].function_evaluations
       /\ d.result[1].final_x = l.result[1].final_x
       /\ d.result[1].final_f = l.result[1].final_f

\* the gradient estimate at the starting point of call c is finite
FiniteGradientAtX0(c) ==
  \A k \in 1..n : GradientAt(c, 1)[k].c = "fin"

C26_ButtonReenabled ==
  (gui.button = "disabled") ~> (gui.button = "normal")

\* what the code does instead: the button is re-enabled unless the lambda of
\* the error path ran after the except clause had ended
ReenabledUnlessNameError ==
  (gui.button = "disabled") ~>
    (gui.button = "normal" \/ \E k \in 1..Len(gui.errors) : gui.errors[k] = "NameError")

\* the three results of run r
ResultsOfRun(r) == {ResultOf(r, methods_to_run[k]) : k \in 1..Len(methods_to_run)}

\* C27: when a worker run with method "Todos" finishes without error, the
\* dictionary read by _update_results holds exactly the three results of
\* that run, under every interleaving with clear_results and toggle_theme.
C27_ThreeResultsShown ==
  \A k \in 1..Len(gui.shown) :
    gui.shown[k].method = "Todos" =>
      gui.shown[k].read = ResultsOfRun(gui.shown[k].run)

\* what the code does instead: _update_results reads results of that run
\* only, but not always all of them
ShownWithinRun ==
  \A k \in 1..Len(gui.shown) :
    gui.shown[k].read \subseteq ResultsOfRun(gui.shown[k].run)

\* steepest_descent of src/methods has left a repair loop that backed off
RepairDone ==
  /\ mth.fn = "steepest_descent"
  /\ mth.pc \in {"loop", "done"}
  /\ mth.backed # <<>>

\* the k-th backed-off iterate of the repair loop is feasible
BackedFeasible(k) ==
  respeita_restricoes(TankModel, mth.backed[k].x[1], mth.backed[k].x[2])

\* C28: the repair loop stops at the first backed-off iterate that satisfies
\* respeita_restricoes (or when alpha <= 1e-8), and alpha is not reduced
\* further than needed to regain feasibility: after a repair that met a
\* feasible iterate, alpha is still above 1e-8.
C28_RepairStopsWhenFeasible ==
  RepairDone =>
    /\ \A k \in 1..(Len(mth.backed) - 1) : ~BackedFeasible(k)
    /\ BackedFeasible(Len(mth.backed)) \/ FLeq(mth.alpha, AlphaMin)
    /\ (\E k \in 1..Len(mth.backed) : BackedFeasible(k)) => FGt(mth.alpha, AlphaMin)

\* what the code does instead: the loop tests the clamped point of lines
\* 39-40, which it never changes, so every repair ends with alpha <= 1e-8
RepairEndsAtAlphaMin ==
  RepairDone => FLeq(mth.alpha, AlphaMin) /\ mth.alpha = Last(mth.backed).alpha

\* the loop terminates: alpha is halved in every pass, and no repair of the
\* model backs off more than 30 times
RepairBounded == Len(mth.backed) <= 30

\* the box of the clamp
InBox(x) ==
  /\ FLeq(BoxMin, x[1]) /\ FLeq(x[1], TankModel.D_max)
  /\ FLeq(BoxMin, x[2]) /\ FLeq(x[2], TankModel.L_max)

\* the returned point is x0, or lies in the box, is feasible, and the
\* returned cost is its cost
ReturnsFeasible(l) ==
  \/ l.result[1].solution = l.x0
  \/ /\ InBox(l.result[1].solution)
     /\ respeita_restricoes(TankModel, l.result[1].solution[1],
                            l.result[1].solution[2])
     /\ l.result[1].cost = custo_at(TankModel, l.result[1].solution)

\* C29: newton_method and dfp_method of src/methods never return a step
\* whose clamped point violates respeita_restricoes: a returned solution
\* that differs from x0 lies in the box, satisfies respeita_restricoes, and
\* the returned cost is the cost of that point.
C29_InfeasibleStepNotReturned ==
  (mth.pc = "done" /\ mth.fn \in {"newton_method", "dfp_method"}) =>
    ReturnsFeasible(mth)

\* what the code does instead: dfp_method keeps to the claim (line 44
\* breaks before x = x_new), newton_method assigns the clamped point to x
\* (line 77) before it tests it (line 79)
DFPMethodReturnsFeasible ==
  (mth.pc = "done" /\ mth.fn = "dfp_method") => ReturnsFeasible(mth)

====
